---------------------------- MODULE Spec2Model ----------------------------
(***************************************************************************)
(* A model of the solar-quote backend (backend/server.js, the revision     *)
(* with PVGIS lookups and MCS self-consumption tables).                    *)
(*                                                                         *)
(* Conventions for JavaScript values                                       *)
(*   - a nullable number is a sequence: <<>> is null, <<n>> is the number; *)
(*   - an optional numeric input is 0 when absent: the code only ever      *)
(*     tests such a field for truthiness (!x, x || 0), so undefined and 0  *)
(*     take the same branches;                                             *)
(*   - an optional string-enum input is "" when absent (falsy like         *)
(*     undefined);                                                         *)
(*   - a string the code inspects character by character (postcode,       *)
(*     houseNumber) is a sequence of one-character strings, wrapped in a   *)
(*     record [t, s] whose tag t is "str", "undef" or "num" (typeof);      *)
(*   - kWp are carried in watts, money in exact scaled integers, so that   *)
(*     every Math.round is taken of the exact real value.                  *)
(***************************************************************************)
EXTENDS Integers, Sequences, FiniteSets, TLC

(***************************************************************************)
(* Bounds of the model                                                     *)
(***************************************************************************)
\* number of requests the server receives in one run
MaxReq == 2

(***************************************************************************)
(* JavaScript helpers                                                      *)
(***************************************************************************)
Null == <<>>

Some(n) == <<n>>

IsNumber(v) == Len(v) = 1

\* Math.round(n / d) for d > 0: nearest integer, halves towards +Infinity
RoundDiv(n, d) ==
  LET q == n \div d
      r == n % d
  IN  IF 2 * r >= d THEN q + 1 ELSE q

RECURSIVE MulDivRem(_, _, _)
\* [q, r] with a * b = q * c + r and 0 <= r < c, for 0 <= a < c and b >= 0,
\* computed by doubling so that no intermediate value exceeds 3 * c
MulDivRem(a, b, c) ==
  IF b = 0
    THEN [q |-> 0, r |-> 0]
    ELSE CHOOSE res \in { [q |-> 2 * h.q + ((2 * h.r + (b % 2) * a) \div c),
                            r |-> (2 * h.r + (b % 2) * a) % c] :
                          h \in {MulDivRem(a, b \div 2, c)} } : TRUE

\* Math.round(a * b / c) for b >= 0 and c > 0, exact, without forming a * b
RoundMulDiv(a, b, c) ==
  CHOOSE res \in
    { IF a < 0
        THEN 0 - ((((0 - a) \div c) * b + md.q) + (IF 2 * md.r > c THEN 1 ELSE 0))
        ELSE ((a \div c) * b + md.q) + (IF 2 * md.r >= c THEN 1 ELSE 0) :
      md \in {MulDivRem((IF a < 0 THEN 0 - a ELSE a) % c, b, c)} } : TRUE

Min(a, b) == IF a <= b THEN a ELSE b

Max(a, b) == IF a >= b THEN a ELSE b

UpperSeq ==
  <<"A","B","C","D","E","F","G","H","I","J","K","L","M",
    "N","O","P","Q","R","S","T","U","V","W","X","Y","Z">>

LowerSeq ==
  <<"a","b","c","d","e","f","g","h","i","j","k","l","m",
    "n","o","p","q","r","s","t","u","v","w","x","y","z">>

Upper == {UpperSeq[i] : i \in DOMAIN UpperSeq}

Lower == {LowerSeq[i] : i \in DOMAIN LowerSeq}

Digit == {"0","1","2","3","4","5","6","7","8","9"}

\* the characters /\s/ matches, among those the model uses
Whitespace == {" ", "\t"}

\* String.prototype.toUpperCase, one character
ToUpper(c) ==
  IF c \in Lower
    THEN UpperSeq[CHOOSE i \in DOMAIN LowerSeq : LowerSeq[i] = c]
    ELSE c

UpperCase(s) == [i \in DOMAIN s |-> ToUpper(s[i])]

\* s.replace(/\s+/g, "")
StripWhitespace(s) == SelectSeq(s, LAMBDA c : c \notin Whitespace)

RECURSIVE TrimLeft(_)
TrimLeft(s) ==
  IF s # <<>> /\ Head(s) \in Whitespace THEN TrimLeft(Tail(s)) ELSE s

RECURSIVE TrimRight(_)
TrimRight(s) ==
  IF s # <<>> /\ s[Len(s)] \in Whitespace
    THEN TrimRight(SubSeq(s, 1, Len(s) - 1))
    ELSE s

\* String.prototype.trim
Trim(s) == TrimRight(TrimLeft(s))

\* s.split(" ")[0]
RECURSIVE FirstToken(_)
FirstToken(s) ==
  IF s = <<>> \/ Head(s) = " " THEN <<>> ELSE <<Head(s)>> \o FirstToken(Tail(s))

Str(s) == [t |-> "str", s |-> s]

Undefined == [t |-> "undef", s |-> <<>>]

\* a JSON number where a string is expected
NotAString == [t |-> "num", s |-> <<>>]

(***************************************************************************)
(* CONFIG (part_001 lines 142-167)                                         *)
(***************************************************************************)
baseCostPerKwp == 800

batteryCostPerKwh == 440

scaffoldingFirstRoof == 600

scaffoldingAdditionalRoof == 400

birdProtectionCost == 350

evChargerCost == 900

\* irradianceFactor 0.85, in hundredths
irradianceFactorPct == 85

\* priceRangeFactor 0.10, in tenths
priceRangeFactorTenths == 1

\* roofKwpCaps, in watts; an unknown or absent roofSize takes the medium cap
roofKwpCaps(roofSize) ==
  CASE roofSize = "small"  -> 2500
    [] roofSize = "medium" -> 4000
    [] roofSize = "large"  -> 6500
    [] OTHER               -> 4000

\* panelOptions; multiplier in 25ths (1.0 = 25/25, 1.12 = 28/25);
\* an unknown option takes the "value" entry
panelOptions(panelOption) ==
  CASE panelOption = "premium" -> [watt |-> 460, multiplier25 |-> 28]
    [] OTHER                   -> [watt |-> 430, multiplier25 |-> 25]

\* regionalMultipliers with the fault of leaving out the scotland entry
regionalMultipliersWithoutScotland(regionKey) ==
  CASE regionKey = "london" -> 22
    [] OTHER                -> 20

\* regionalMultipliers, in 20ths (1.0 = 20/20, 1.1 = 22/20, 0.95 = 19/20);
\* a region key without an entry takes the default
regionalMultipliers(regionKey) ==
  CASE regionKey = "london"   -> 22
    [] regionKey = "scotland" -> 19
    [] OTHER                  -> 20

(***************************************************************************)
(* Postcode helpers                                                        *)
(***************************************************************************)
PostcodeError(msg) == [ok |-> FALSE, value |-> <<>>, error |-> msg]

\* /^[A-Z]{1,2}\d[A-Z\d]?\s\d[A-Z]{2}$/ on "<outward> <inward>", where the
\* inward part is the last three characters
PostcodePattern(outward, inward) ==
  LET L(c) == c \in Upper
      D(c) == c \in Digit
      X(c) == c \in Upper \cup Digit
      n    == Len(outward)
  IN  /\ Len(inward) = 3
      /\ D(inward[1]) /\ L(inward[2]) /\ L(inward[3])
      /\ \/ n = 2 /\ L(outward[1]) /\ D(outward[2])
         \/ n = 3 /\ L(outward[1]) /\ D(outward[2]) /\ X(outward[3])
         \/ n = 3 /\ L(outward[1]) /\ L(outward[2]) /\ D(outward[3])
         \/ n = 4 /\ L(outward[1]) /\ L(outward[2]) /\ D(outward[3])
                  /\ X(outward[4])

\* lines 170-183 with the fault of not removing the whitespace at line 174
validateAndNormalisePostcodeKeepingSpaces(rawPostcode) ==
  IF rawPostcode.t # "str" \/ rawPostcode.s = <<>>
    THEN PostcodeError("Postcode is required.")
    ELSE
      LET cleaned  == UpperCase(rawPostcode.s)
          n        == Len(cleaned)
          outward  == SubSeq(cleaned, 1, n - 3)
          inward   == SubSeq(cleaned, n - 2, n)
      IN  IF n < 5
            THEN PostcodeError("Postcode looks too short.")
            ELSE IF ~PostcodePattern(outward, inward)
              THEN PostcodeError("Postcode format is not recognised.")
              ELSE [ok |-> TRUE, value |-> outward \o <<" ">> \o inward,
                    error |-> ""]

validateAndNormalisePostcode(rawPostcode) ==
  IF rawPostcode.t # "str" \/ rawPostcode.s = <<>>
    THEN PostcodeError("Postcode is required.")
    ELSE
      LET cleaned  == StripWhitespace(UpperCase(rawPostcode.s))
          n        == Len(cleaned)
          outward  == SubSeq(cleaned, 1, n - 3)
          inward   == SubSeq(cleaned, n - 2, n)
      IN  IF n < 5
            THEN PostcodeError("Postcode looks too short.")
            ELSE IF ~PostcodePattern(outward, inward)
              THEN PostcodeError("Postcode format is not recognised.")
              ELSE [ok |-> TRUE, value |-> outward \o <<" ">> \o inward,
                    error |-> ""]

\* lines 185-190 with the fault of matching /^[A-Z]/, one letter only
getPostcodeAreaFirstLetter(postcode) ==
  IF postcode.t # "str" \/ postcode.s = <<>>
    THEN <<>>
    ELSE
      LET outward == FirstToken(UpperCase(Trim(postcode.s)))
      IN  IF outward = <<>> \/ outward[1] \notin Upper
            THEN <<>>
            ELSE SubSeq(outward, 1, 1)

\* the leading one or two letters of the outward part; <<>> is null
getPostcodeArea(postcode) ==
  IF postcode.t # "str" \/ postcode.s = <<>>
    THEN <<>>
    ELSE
      LET outward == FirstToken(UpperCase(Trim(postcode.s)))
      IN  IF outward = <<>> \/ outward[1] \notin Upper
            THEN <<>>
            ELSE IF Len(outward) >= 2 /\ outward[2] \in Upper
              THEN SubSeq(outward, 1, 2)
              ELSE SubSeq(outward, 1, 1)

REGION_TABLE ==
  << [key |-> "scotland", kWhPerKwp |-> 875,
      areas |-> <<<<"A","B">>, <<"D","D">>, <<"F","K">>, <<"I","V">>, <<"K","W">>, <<"K","Y">>, <<"P","H">>, <<"H","S">>, <<"Z","E">>>>],
     [key |-> "north", kWhPerKwp |-> 925,
      areas |-> <<<<"D","G">>, <<"E","H">>, <<"G">>, <<"K","A">>, <<"M","L">>, <<"T","D">>, <<"N","E">>, <<"D","H">>, <<"S","R">>, <<"T","S">>>>],
     [key |-> "north_midlands", kWhPerKwp |-> 950,
      areas |-> <<<<"L","A">>, <<"C","A">>, <<"D","L">>, <<"Y","O">>, <<"B","B">>, <<"B","D">>, <<"H","D">>, <<"H","G">>, <<"H","U">>, <<"L","S">>, <<"W","F">>>>],
     [key |-> "midlands", kWhPerKwp |-> 975,
      areas |-> <<<<"L">>, <<"M">>, <<"P","R">>, <<"W","N">>, <<"B","L">>, <<"O","L">>, <<"S","K">>, <<"C","W">>, <<"C","H">>, <<"W","A">>, <<"S","Y">>, <<"S","T">>, <<"D","E">>, <<"N","G">>, <<"L","E">>, <<"N","N">>, <<"C","V">>, <<"B">>>>],
     [key |-> "wales_south_central", kWhPerKwp |-> 1025,
      areas |-> <<<<"C","F">>, <<"N","P">>, <<"S","A">>, <<"L","D">>, <<"H","R">>, <<"G","L">>, <<"O","X">>, <<"S","N">>, <<"R","G">>>>],
     [key |-> "south_west", kWhPerKwp |-> 1050,
      areas |-> <<<<"B","A">>, <<"B","S">>, <<"T","A">>, <<"D","T">>, <<"B","H">>, <<"S","P">>, <<"S","O">>, <<"P","O">>>>],
     [key |-> "devon_cornwall", kWhPerKwp |-> 1100,
      areas |-> <<<<"E","X">>, <<"T","Q">>, <<"T","R">>, <<"P","L">>>>],
     [key |-> "south_east", kWhPerKwp |-> 1075,
      areas |-> <<<<"G","U">>, <<"K","T">>, <<"S","M">>, <<"C","R">>, <<"R","H">>, <<"B","N">>, <<"M","E">>, <<"T","N">>, <<"B","R">>, <<"D","A">>>>],
     [key |-> "london", kWhPerKwp |-> 1050,
      areas |-> <<<<"S","W">>, <<"S","E">>, <<"W">>, <<"N","W">>, <<"N">>, <<"E">>, <<"E","C">>, <<"W","C">>, <<"H","A">>, <<"U","B">>, <<"T","W">>>>] >>

DefaultRegion == [key |-> "default", kWhPerKwp |-> 975]

SeqContains(seq, x) == \E i \in DOMAIN seq : seq[i] = x

\* first REGION_TABLE entry whose area list includes the area
getRegionInfoForPostcode(postcode) ==
  LET area == getPostcodeArea(postcode)
      hits == {i \in DOMAIN REGION_TABLE : SeqContains(REGION_TABLE[i].areas, area)}
  IN  IF area = <<>> \/ hits = {}
        THEN DefaultRegion
        ELSE LET first == CHOOSE i \in hits : \A j \in hits : i <= j
             IN  [key |-> REGION_TABLE[first].key,
                  kWhPerKwp |-> REGION_TABLE[first].kWhPerKwp]

\* in hundredths
getShadingFactor(shading) ==
  CASE shading = "none"  -> 100
    [] shading = "some"  -> 90
    [] shading = "a_lot" -> 80
    [] OTHER             -> 95

(***************************************************************************)
(* calculateQuote (part_001 lines 358-477)                                 *)
(*                                                                         *)
(* Units of the returned quote: systemSizeKwp in hundredths of a kWp (the  *)
(* code keeps two decimals), shadingFactor in hundredths, every other      *)
(* field in the code's own unit.  Exact intermediate values:               *)
(*   annual consumption and required capacity are fractions [n, d];        *)
(*   baseSystemCost is carried times 500, directCosts times 50000.         *)
(***************************************************************************)
RECURSIVE SumPanels(_)
\* input.roofs.reduce((sum, r) => sum + Number(r?.panels || 0), 0)
SumPanels(roofs) ==
  IF roofs = <<>> THEN 0 ELSE Head(roofs).panels + SumPanels(Tail(roofs))

\* input.panelOption || input.PanelOption || "value"
normalizedPanelOption(input) ==
  IF input.panelOption # "" THEN input.panelOption
  ELSE IF input.PanelOption # "" THEN input.PanelOption
  ELSE "value"

\* lines 372-379 with the fault of counting the first roof face only
panelCountFromFirstRoof(input) ==
  IF input.panelCount = 0 \/ input.panelCount <= 0
    THEN IF Len(input.roofs) > 0 /\ Head(input.roofs).panels > 0
           THEN Head(input.roofs).panels
           ELSE 0
    ELSE 0

\* lines 372-379: the roof-derived count, taken only when no manual panelCount
\* > 0 was supplied; 0 stands for "left undefined"
panelCountFromRoofs(input) ==
  IF input.panelCount = 0 \/ input.panelCount <= 0
    THEN IF Len(input.roofs) > 0 /\ SumPanels(input.roofs) > 0
           THEN SumPanels(input.roofs)
           ELSE 0
    ELSE 0

\* lines 381-387 with the fault of deriving the consumption from the bill
\* whenever there is one, even beside an annualKWh
resolveAnnualKWhBillFirst(input) ==
  IF input.monthlyBill # 0
    THEN [n |-> input.monthlyBill * 300, d |-> 7]
    ELSE IF input.annualKWh # 0
      THEN [n |-> input.annualKWh, d |-> 1]
      ELSE [n |-> 3000, d |-> 1]

\* lines 381-387: annual consumption in kWh as a fraction n / d
resolveAnnualKWh(input) ==
  IF input.annualKWh # 0
    THEN [n |-> input.annualKWh, d |-> 1]
    ELSE IF input.monthlyBill # 0
      \* monthlyBill * 12 / 0.28
      THEN [n |-> input.monthlyBill * 300, d |-> 7]
      ELSE [n |-> 3000, d |-> 1]

\* lines 395-408 with the fault of leaving out line 403, the reduction under
\* heavy shading
autoPanelCountIgnoringShading(input, annualKWh, watt) ==
  LET roofCap  == roofKwpCaps(input.roofSize)
      clamped  == IF annualKWh.n < 2000 * annualKWh.d
                    THEN [n |-> 2000, d |-> 1]
                    ELSE IF annualKWh.n > roofCap * annualKWh.d
                      THEN [n |-> roofCap, d |-> 1]
                      ELSE annualKWh
      count    == RoundDiv(clamped.n, clamped.d * watt)
  IN  IF count < 6 THEN 6 ELSE count

\* lines 395-408: automatic sizing
autoPanelCount(input, annualKWh, watt) ==
  LET roofCap  == roofKwpCaps(input.roofSize)
      \* requiredKwp = annualKWh / 1000, in watts: annualKWh.n / annualKWh.d
      clamped  == IF annualKWh.n < 2000 * annualKWh.d
                    THEN [n |-> 2000, d |-> 1]
                    ELSE IF annualKWh.n > roofCap * annualKWh.d
                      THEN [n |-> roofCap, d |-> 1]
                      ELSE annualKWh
      required == IF input.shading = "a_lot"
                    THEN [n |-> clamped.n * 9, d |-> clamped.d * 10]
                    ELSE clamped
      count    == RoundDiv(required.n, required.d * watt)
  IN  IF count < 6 THEN 6 ELSE count

\* lines 368-408 with the fault of applying the 6-panel floor of the
\* automatic sizing to a manual panel count as well
resolvePanelCountFloored(input, annualKWh, watt) ==
  LET fromRoofs == panelCountFromRoofs(input)
  IN  IF fromRoofs # 0 THEN fromRoofs
      ELSE IF input.panelCount # 0 /\ input.panelCount > 0
        THEN Max(6, input.panelCount)
      ELSE autoPanelCount(input, annualKWh, watt)

\* lines 368-408: the panel count the quote is made for
resolvePanelCount(input, annualKWh, watt) ==
  LET fromRoofs == panelCountFromRoofs(input)
  IN  IF fromRoofs # 0 THEN fromRoofs
      ELSE IF input.panelCount # 0 /\ input.panelCount > 0 THEN input.panelCount
      ELSE autoPanelCount(input, annualKWh, watt)

\* With the 430 W panel and an odd panel count the product of line 451 is an
\* exact half in real numbers.  In double precision it falls just under the
\* half at these counts (of those up to 60), and Math.round goes down.
HalfRoundedDown == {7, 11, 31, 33, 35, 39, 41, 43, 53, 57}

\* line 451: Math.round(systemSizeKwp * cfg.irradianceFactor * 1000)
fallbackAnnual(panelCount, watt) ==
  IF watt = 430 /\ panelCount \in HalfRoundedDown
    THEN RoundDiv(panelCount * watt * irradianceFactorPct, 100) - 1
    ELSE RoundDiv(panelCount * watt * irradianceFactorPct, 100)

\* lines 447-448 with the fault of taking the two range factors the wrong way
\* round: priceLow from 1 + priceRangeFactor, priceHigh from 1 - priceRangeFactor
calculateQuoteSwappedRange(input, opts) ==
  LET panelOpt   == panelOptions(normalizedPanelOption(input))
      watt       == panelOpt.watt
      annualKWh  == resolveAnnualKWh(input)
      panelCount == resolvePanelCount(input, annualKWh, watt)
      systemW    == panelCount * watt
      regionInfo == getRegionInfoForPostcode(input.postcode)
      regionMult == regionalMultipliers(regionInfo.key)
      \* systemSizeKwp * baseCostPerKwp * multiplier * regionMult, times 500
      base500    == panelCount * ((watt * baseCostPerKwp) \div 1000)
                      * panelOpt.multiplier25 * regionMult
      roofCount  == IF Len(input.roofs) > 0 THEN Len(input.roofs) ELSE 1
      scaffold   == scaffoldingFirstRoof
                      + Max(roofCount - 1, 0) * scaffoldingAdditionalRoof
      battery    == IF input.batteryKWh > 0
                      THEN input.batteryKWh * batteryCostPerKwh
                      ELSE 0
      extras     == (IF input.extras.birdProtection THEN birdProtectionCost ELSE 0)
                      + (IF input.extras.evCharger THEN evChargerCost ELSE 0)
      \* panelsCost (0.5 base) + inverterCost (0.23 base) + the three items
      \* scaled by regionMult, times 50000
      direct50k  == base500 * 73 + (scaffold + battery + extras) * regionMult * 2500
      \* total = directCosts * 1.3; price = total * (1 -+ priceRangeFactor)
      lowFactor  == 13 * (10 - priceRangeFactorTenths)
      highFactor == 13 * (10 + priceRangeFactorTenths)
  IN  [ systemSizeKwp  |-> RoundDiv(systemW, 10),
        panelCount     |-> panelCount,
        panelWatt      |-> watt,
        priceLow       |-> RoundMulDiv(direct50k, highFactor, 5000000),
        priceHigh      |-> RoundMulDiv(direct50k, lowFactor, 5000000),
        breakdown      |->
          [ panels          |-> RoundDiv(base500, 1000),
            inverter        |-> RoundMulDiv(base500, 23, 50000),
            battery         |-> RoundDiv(battery * regionMult, 20),
            scaffolding     |-> RoundDiv(scaffold * regionMult, 20),
            extras          |-> RoundDiv(extras * regionMult, 20),
            labourAndMargin |-> RoundMulDiv(direct50k, 3, 500000) ],
        estAnnualGenerationKWh |->
          IF IsNumber(opts.annualGenerationOverrideKWh)
            THEN opts.annualGenerationOverrideKWh[1]
            ELSE fallbackAnnual(panelCount, watt),
        kWhPerKwpRegion |-> regionInfo.kWhPerKwp,
        shadingFactor   |-> getShadingFactor(input.shading),
        assumedAnnualConsumptionKWh |-> RoundDiv(annualKWh.n, annualKWh.d) ]

calculateQuote(input, opts) ==
  LET panelOpt   == panelOptions(normalizedPanelOption(input))
      watt       == panelOpt.watt
      annualKWh  == resolveAnnualKWh(input)
      panelCount == resolvePanelCount(input, annualKWh, watt)
      systemW    == panelCount * watt
      regionInfo == getRegionInfoForPostcode(input.postcode)
      regionMult == regionalMultipliers(regionInfo.key)
      \* systemSizeKwp * baseCostPerKwp * multiplier * regionMult, times 500
      base500    == panelCount * ((watt * baseCostPerKwp) \div 1000)
                      * panelOpt.multiplier25 * regionMult
      roofCount  == IF Len(input.roofs) > 0 THEN Len(input.roofs) ELSE 1
      scaffold   == scaffoldingFirstRoof
                      + Max(roofCount - 1, 0) * scaffoldingAdditionalRoof
      battery    == IF input.batteryKWh > 0
                      THEN input.batteryKWh * batteryCostPerKwh
                      ELSE 0
      extras     == (IF input.extras.birdProtection THEN birdProtectionCost ELSE 0)
                      + (IF input.extras.evCharger THEN evChargerCost ELSE 0)
      \* panelsCost (0.5 base) + inverterCost (0.23 base) + the three items
      \* scaled by regionMult, times 50000
      direct50k  == base500 * 73 + (scaffold + battery + extras) * regionMult * 2500
      \* total = directCosts * 1.3; price = total * (1 -+ priceRangeFactor)
      lowFactor  == 13 * (10 - priceRangeFactorTenths)
      highFactor == 13 * (10 + priceRangeFactorTenths)
  IN  [ systemSizeKwp  |-> RoundDiv(systemW, 10),
        panelCount     |-> panelCount,
        panelWatt      |-> watt,
        priceLow       |-> RoundMulDiv(direct50k, lowFactor, 5000000),
        priceHigh      |-> RoundMulDiv(direct50k, highFactor, 5000000),
        breakdown      |->
          [ panels          |-> RoundDiv(base500, 1000),
            inverter        |-> RoundMulDiv(base500, 23, 50000),
            battery         |-> RoundDiv(battery * regionMult, 20),
            scaffolding     |-> RoundDiv(scaffold * regionMult, 20),
            extras          |-> RoundDiv(extras * regionMult, 20),
            labourAndMargin |-> RoundMulDiv(direct50k, 3, 500000) ],
        estAnnualGenerationKWh |->
          IF IsNumber(opts.annualGenerationOverrideKWh)
            THEN opts.annualGenerationOverrideKWh[1]
            ELSE fallbackAnnual(panelCount, watt),
        kWhPerKwpRegion |-> regionInfo.kWhPerKwp,
        shadingFactor   |-> getShadingFactor(input.shading),
        assumedAnnualConsumptionKWh |-> RoundDiv(annualKWh.n, annualKWh.d) ]

\* lines 362-363 with the fault of also clearing input.roofs
calculateQuoteInputDroppingRoofs(input) ==
  [input EXCEPT !.panelOption = normalizedPanelOption(input), !.roofs = <<>>]

\* lines 362-363: calculateQuote writes the normalised option back to input
calculateQuoteInput(input) ==
  [input EXCEPT !.panelOption = normalizedPanelOption(input)]

(***************************************************************************)
(* Self-consumption and savings (part_001 lines 479-900)                   *)
(*                                                                         *)
(* Fractions are carried in millionths.  The heuristic base fraction and   *)
(* the battery uplift are each rounded to a millionth, which leaves the    *)
(* fraction within two millionths of the double the code computes; the     *)
(* kWh and money figures derived from it are the code's on the inputs of   *)
(* SavingsInputs.                                                          *)
(***************************************************************************)
assumedPricePerKWhPct == 28

assumedSegPricePerKWhPct == 12

\* the ceiling of the MCS table mode, line 770
McsCeilingKWh == 6000

\* clamp(n, min, max), line 479
clamp(n, lo, hi) == Max(lo, Min(hi, n))

\* lerp(x, x1, y1, x2, y2) with x = xn / xd and x1, x2 in hundredths,
\* y1, y2 in millionths
lerp(xn, xd, x1, y1, x2, y2) ==
  IF 100 * xn <= x1 * xd THEN y1
  ELSE IF 100 * xn >= x2 * xd THEN y2
  ELSE IF y2 >= y1
    THEN y1 + RoundMulDiv(100 * xn - x1 * xd, y2 - y1, (x2 - x1) * xd)
    ELSE y1 - RoundMulDiv(100 * xn - x1 * xd, y1 - y2, (x2 - x1) * xd)

RECURSIVE piecewiseFrom(_, _, _, _)
piecewiseFrom(i, xn, xd, points) ==
  IF i >= Len(points)
    THEN points[Len(points)].v
    ELSE IF 100 * xn >= points[i].r * xd /\ 100 * xn <= points[i + 1].r * xd
      THEN lerp(xn, xd, points[i].r, points[i].v, points[i + 1].r, points[i + 1].v)
      ELSE piecewiseFrom(i + 1, xn, xd, points)

\* piecewiseRatioValue(ratio, points), lines 495-506
piecewiseRatioValue(xn, xd, points) ==
  IF 100 * xn <= points[1].r * xd
    THEN points[1].v
    ELSE piecewiseFrom(1, xn, xd, points)

\* the per-occupancy curve of batteryUpliftMcsTrend: scale in tenths of a kWh,
\* break-points r in hundredths, v in millionths
upliftCurve(occupancyProfile) ==
  CASE occupancyProfile = "home_all_day" ->
         [scale |-> 24,
          points |-> << [r |-> 60, v |-> 490000], [r |-> 90, v |-> 460000],
                        [r |-> 110, v |-> 410000], [r |-> 135, v |-> 370000],
                        [r |-> 175, v |-> 300000] >>]
    [] occupancyProfile = "out_all_day" ->
         [scale |-> 43,
          points |-> << [r |-> 60, v |-> 680000], [r |-> 90, v |-> 640000],
                        [r |-> 110, v |-> 580000], [r |-> 135, v |-> 470000],
                        [r |-> 175, v |-> 380000] >>]
    [] OTHER ->
         [scale |-> 30,
          points |-> << [r |-> 60, v |-> 570000], [r |-> 90, v |-> 530000],
                        [r |-> 110, v |-> 480000], [r |-> 135, v |-> 410000],
                        [r |-> 175, v |-> 340000] >>]

\* 1 - Math.exp(-b / scale) in millionths, tabulated for b = 1 .. 15 kWh
saturation(b, scale) ==
  LET table ==
        CASE scale = 24 ->
               <<340759, 565402, 713495, 811124, 875486, 917915, 945886, 964326,
                 976482, 984496, 989779, 993262, 995558, 997072, 998070>>
          [] scale = 43 ->
               <<207496, 371938, 502259, 605538, 687387, 752253, 803660, 844400,
                 876686, 902273, 922551, 938622, 951357, 961451, 969449>>
          [] OTHER ->
               <<283469, 486583, 632121, 736403, 811124, 864665, 903028, 930517,
                 950213, 964326, 974438, 981684, 986876, 990596, 993262>>
  IN  table[b]

\* lines 509-559 with the fault of defaulting a missing battery to 1 kWh,
\* Number(batteryKWh || 1), at line 510
batteryUpliftDefaultingToOne(occupancyProfile, xn, xd, batteryKWh) ==
  LET b      == IF batteryKWh = 0 THEN 1 ELSE Max(0, batteryKWh)
      curve  == upliftCurve(occupancyProfile)
      rn     == IF 2 * xn < xd THEN 1 ELSE IF xn > 2 * xd THEN 2 ELSE xn
      rd     == IF 2 * xn < xd THEN 2 ELSE IF xn > 2 * xd THEN 1 ELSE xd
      maxAdd == piecewiseRatioValue(rn, rd, curve.points)
      uplift == RoundMulDiv(maxAdd, saturation(b, curve.scale), 1000000)
  IN  IF b <= 0 THEN 0 ELSE Max(0, Min(uplift, 800000))

\* batteryUpliftMcsTrend, lines 509-559; ratio = xn / xd, result in millionths
batteryUpliftMcsTrend(occupancyProfile, xn, xd, batteryKWh) ==
  LET b == Max(0, batteryKWh)
  IN  IF b <= 0
        THEN 0
        ELSE
          LET curve  == upliftCurve(occupancyProfile)
              \* r = max(0.5, min(2, ratio))
              rn     == IF 2 * xn < xd THEN 1 ELSE IF xn > 2 * xd THEN 2 ELSE xn
              rd     == IF 2 * xn < xd THEN 2 ELSE IF xn > 2 * xd THEN 1 ELSE xd
              maxAdd == piecewiseRatioValue(rn, rd, curve.points)
              uplift == RoundMulDiv(maxAdd, saturation(b, curve.scale), 1000000)
          IN  Max(0, Min(uplift, 800000))

(***************************************************************************)
(* MCS self-consumption tables.  The data file the code loads,             *)
(* data/mcs_self_consumption_tables.json, is not part of the source tree;  *)
(* the tables below have the shape lookupMcsSelfConsumptionFraction reads  *)
(* (occupancy -> consumption bands -> generation-bin rows -> one fraction  *)
(* per battery column) with sample values.  Fractions are in millionths,   *)
(* battery columns in tenths of a kWh.  A cell past the end of a row's     *)
(* fraction list is a cell with no number in it.                           *)
(***************************************************************************)
McsBatteryColumns == <<0, 11, 21, 31, 41, 51>>

McsOccupancies == {"home_all_day", "half_day", "out_all_day"}

McsCell(occ, band, row, col) ==
  LET base == CASE occ = "home_all_day" -> 620000
                [] occ = "out_all_day"  -> 380000
                [] OTHER                -> 500000
  IN  clamp(base + 30000 * band - 25000 * row + 90000 * (col - 1), 60000, 980000)

McsRow(occ, band, row) ==
  [ generation_bin |-> [min_kwh |-> 300 * row, max_kwh |-> 300 * row + 299],
    self_consumption_fraction |->
      \* the last row of the last band lacks its two largest battery columns
      [col \in 1 .. (IF band = 8 /\ row = 18 THEN 4 ELSE 6) |->
         McsCell(occ, band, row, col)] ]

McsTable(occ, band) ==
  [ consumption_range |-> [min_kwh |-> 1500 + 500 * band,
                           max_kwh |-> 1999 + 500 * band],
    battery_kwh |-> McsBatteryColumns,
    rows |-> [row \in 1 .. 19 |-> McsRow(occ, band, row - 1)] ]

\* MCS_TABLES[occ]: the list of consumption-band tables of an occupancy
MCS_TABLES ==
  [occ \in McsOccupancies |-> [band \in 1 .. 9 |-> McsTable(occ, band - 1)]]

\* find(): the least of the matching indices, 0 when there is none
FirstIndex(hits) ==
  IF hits = {} THEN 0 ELSE CHOOSE i \in hits : \A j \in hits : i <= j

RECURSIVE nearestColumnFrom(_, _, _, _, _)
\* lines 735-747: strict "<" keeps the first of two equally near columns
nearestColumnFrom(i, cols, batt10, bestIdx, bestDiff) ==
  IF i > Len(cols)
    THEN bestIdx
    ELSE LET diff == IF cols[i] >= batt10 THEN cols[i] - batt10 ELSE batt10 - cols[i]
         IN  IF bestDiff < 0 \/ diff < bestDiff
               THEN nearestColumnFrom(i + 1, cols, batt10, i, diff)
               ELSE nearestColumnFrom(i + 1, cols, batt10, bestIdx, bestDiff)

\* lookupMcsSelfConsumptionFraction, lines 674-758; <<>> is null
lookupMcsSelfConsumptionFraction(gen, cons, batteryKWh, occupancyProfile) ==
  IF gen <= 0 \/ cons <= 0
    THEN Null
    ELSE
      LET occ    == IF occupancyProfile \in McsOccupancies
                      THEN occupancyProfile ELSE "half_day"
          tables == MCS_TABLES[occ]
          t      == FirstIndex({i \in DOMAIN tables :
                      /\ cons >= tables[i].consumption_range.min_kwh
                      /\ cons <= tables[i].consumption_range.max_kwh})
      IN  IF t = 0
            THEN Null
            ELSE
              LET table == tables[t]
                  r     == FirstIndex({i \in DOMAIN table.rows :
                             /\ gen >= table.rows[i].generation_bin.min_kwh
                             /\ gen <= table.rows[i].generation_bin.max_kwh})
              IN  IF r = 0 \/ Len(table.battery_kwh) = 0
                    THEN Null
                    ELSE
                      LET bestIdx == nearestColumnFrom(1, table.battery_kwh,
                                                       10 * batteryKWh, 1, -1)
                          fracs   == table.rows[r].self_consumption_fraction
                      IN  IF bestIdx \in DOMAIN fracs
                            THEN Some(fracs[bestIdx])
                            ELSE Null

\* the heuristic base fractions at ratio 0.5, 1.0 and 2.0, in millionths
baseAnchors(occ) ==
  CASE occ = "home_all_day" -> [at05 |-> 500000, at10 |-> 300000, at20 |-> 250000]
    [] occ = "out_all_day"  -> [at05 |-> 240000, at10 |-> 180000, at20 |-> 120000]
    [] OTHER                -> [at05 |-> 400000, at10 |-> 250000, at20 |-> 150000]

\* lines 828-874 with the fault of leaving out the clamp of lines 873-874
heuristicSelfFractionUnclamped(input, gen, demand) ==
  LET \* ratio = gen / demand clamped to [0.5, 2], as xn / xd
      low   == 2 * gen < demand \/ demand < 0
      high  == ~low /\ gen > 2 * demand
      xn    == IF low THEN 1 ELSE IF high THEN 2 ELSE gen
      xd    == IF low THEN 2 ELSE IF high THEN 1 ELSE demand
      occ   == IF input.occupancyProfile # "" THEN input.occupancyProfile
               ELSE "half_day"
      a     == baseAnchors(occ)
      baseSelf == IF xn <= xd
                    THEN lerp(xn, xd, 50, a.at05, 100, a.at10)
                    ELSE lerp(xn, xd, 100, a.at10, 200, a.at20)
      uplift == batteryUpliftMcsTrend(occ, xn, xd, input.batteryKWh)
  IN  baseSelf + uplift

\* lines 828-874: the heuristic fraction, in millionths
heuristicSelfFraction(input, gen, demand) ==
  LET \* ratio = gen / demand clamped to [0.5, 2], as xn / xd
      low   == 2 * gen < demand \/ demand < 0
      high  == ~low /\ gen > 2 * demand
      xn    == IF low THEN 1 ELSE IF high THEN 2 ELSE gen
      xd    == IF low THEN 2 ELSE IF high THEN 1 ELSE demand
      occ   == IF input.occupancyProfile # "" THEN input.occupancyProfile
               ELSE "half_day"
      a     == baseAnchors(occ)
      baseSelf == IF xn <= xd
                    THEN lerp(xn, xd, 50, a.at05, 100, a.at10)
                    ELSE lerp(xn, xd, 100, a.at10, 200, a.at20)
      uplift == batteryUpliftMcsTrend(occ, xn, xd, input.batteryKWh)
  IN  clamp(baseSelf + uplift, 0, 950000)

RECURSIVE floorLog2(_, _)
\* the binary exponent of the double n / d, floor(log2(n / d)), for n, d > 0
floorLog2(n, d) ==
  IF n >= 2 * d THEN floorLog2(n, 2 * d) + 1
  ELSE IF n < d THEN floorLog2(2 * n, d) - 1
  ELSE 0

\* Number((n / d).toFixed(1)) in tenths, for n, d > 0, lines 798 and 889.
\* toFixed rounds the exact value of the double n / d.  When the exact
\* quotient lies half-way between two tenths it is m / 20 with m odd; its
\* 53-bit mantissa is m * 2^t / 5 rounded to the nearest integer, with
\* t = 50 - floorLog2(n, d), so the double falls below the half-way point
\* when m * 2^t leaves remainder 1 or 2 on division by 5, and toFixed then
\* rounds down.
toFixed1(n, d) ==
  LET q == (10 * n) \div d
      r == (10 * n) % d
  IN  IF 2 * r # d
        THEN IF 2 * r > d THEN q + 1 ELSE q
        ELSE LET t    == 50 - floorLog2(n, d)
                 pow  == CASE t % 4 = 0 -> 1
                           [] t % 4 = 1 -> 2
                           [] t % 4 = 2 -> 4
                           [] OTHER     -> 3
                 rest == (((2 * q + 1) % 5) * pow) % 5
             IN  IF rest \in {1, 2} THEN q ELSE q + 1

\* lines 785-809 and 876-899 with the fault of dividing priceHigh, not the
\* midpoint of the price range, by the total benefit
savingsFromPriceHigh(selfFraction, gen, quote, model) ==
  LET selfKWh   == RoundMulDiv(gen, selfFraction, 1000000)
      exportKWh == Max(gen - selfKWh, 0)
      annualBillSavings  == RoundDiv(selfKWh * assumedPricePerKWhPct, 100)
      annualSegIncome    == RoundDiv(exportKWh * assumedSegPricePerKWhPct, 100)
      totalAnnualBenefit == annualBillSavings + annualSegIncome
  IN  [ selfConsumptionFraction |-> selfFraction,
        selfConsumptionKWh      |-> selfKWh,
        annualBillSavings       |-> annualBillSavings,
        annualSegIncome         |-> annualSegIncome,
        totalAnnualBenefit      |-> totalAnnualBenefit,
        simplePaybackYears      |->
          IF totalAnnualBenefit > 0
            THEN Some(toFixed1(quote.priceHigh, totalAnnualBenefit))
            ELSE Null,
        selfConsumptionModel    |-> model ]

\* lines 785-809 and 876-899: what follows from the fraction
savingsFrom(selfFraction, gen, quote, model) ==
  LET selfKWh   == RoundMulDiv(gen, selfFraction, 1000000)
      exportKWh == Max(gen - selfKWh, 0)
      annualBillSavings  == RoundDiv(selfKWh * assumedPricePerKWhPct, 100)
      annualSegIncome    == RoundDiv(exportKWh * assumedSegPricePerKWhPct, 100)
      totalAnnualBenefit == annualBillSavings + annualSegIncome
  IN  [ selfConsumptionFraction |-> selfFraction,
        selfConsumptionKWh      |-> selfKWh,
        annualBillSavings       |-> annualBillSavings,
        annualSegIncome         |-> annualSegIncome,
        totalAnnualBenefit      |-> totalAnnualBenefit,
        \* Number((midPrice / totalAnnualBenefit).toFixed(1)), in tenths
        simplePaybackYears      |->
          IF totalAnnualBenefit > 0
            THEN Some(toFixed1(quote.priceLow + quote.priceHigh,
                               2 * totalAnnualBenefit))
            ELSE Null,
        selfConsumptionModel    |-> model ]

\* estimateSelfConsumptionAndSavings, lines 761-900.  selfConsumptionModel ""
\* is a result without that field.
estimateSelfConsumptionAndSavings(input, quote) ==
  LET gen    == quote.estAnnualGenerationKWh
      demand == IF quote.assumedAnnualConsumptionKWh # 0
                  THEN quote.assumedAnnualConsumptionKWh
                  ELSE IF input.annualKWh # 0 THEN input.annualKWh ELSE gen
      useMcs == gen <= McsCeilingKWh /\ demand <= McsCeilingKWh
      mcsFrac == IF useMcs
                   THEN lookupMcsSelfConsumptionFraction(
                          gen, demand, input.batteryKWh,
                          IF input.occupancyProfile # "" THEN input.occupancyProfile
                          ELSE "half_day")
                   ELSE Null
  IN  IF IsNumber(mcsFrac)
        THEN savingsFrom(Min(Max(mcsFrac[1], 0), 950000), gen, quote, "mcs")
        ELSE IF gen = 0 \/ demand = 0
          THEN [ selfConsumptionFraction |-> 0,
                 selfConsumptionKWh      |-> 0,
                 annualBillSavings       |-> 0,
                 annualSegIncome         |-> 0,
                 totalAnnualBenefit      |-> 0,
                 simplePaybackYears      |-> Null,
                 selfConsumptionModel    |-> "" ]
          ELSE savingsFrom(heuristicSelfFraction(input, gen, demand), gen, quote,
                           "heuristic")

\* { ...baseQuote, ...savings }, line 957
mergeQuote(baseQuote, savings) ==
  [k \in DOMAIN baseQuote \cup DOMAIN savings |->
     IF k \in DOMAIN savings THEN savings[k] ELSE baseQuote[k]]

(***************************************************************************)
(* Lead storage (part_001 lines 24-49)                                     *)
(*                                                                         *)
(* leads.json is [kind, leads]: "missing" (no file), "blank" (only white   *)
(* space), "corrupt" (not JSON), "nonarray" (JSON, but not an array) or    *)
(* "array", and then leads is the list of leads in their JSON form.        *)
(***************************************************************************)
JNum(n) == [j |-> "number", n |-> n, s |-> <<>>]

JStr(s) == [j |-> "string", n |-> 0, s |-> s]

JNull == [j |-> "null", n |-> 0, s |-> <<>>]

\* JSON.stringify of a quote with the fault of a null simplePaybackYears
\* being left out, as an undefined one would be
JsonOfQuoteOmittingNull(quote) ==
  LET keys == {k \in DOMAIN quote :
                 /\ ~(k = "selfConsumptionModel" /\ quote[k] = "")
                 /\ ~(k = "simplePaybackYears" /\ quote[k] = Null)}
  IN  [k \in keys |->
        CASE k = "breakdown" -> [c \in DOMAIN quote[k] |-> JNum(quote[k][c])]
          [] k = "simplePaybackYears" -> JNum(quote[k][1])
          [] k = "selfConsumptionModel" -> JStr(quote[k])
          [] OTHER -> JNum(quote[k])]

\* JSON.stringify of a quote: numbers as numbers, null as null, and a field
\* the object does not have (selfConsumptionModel "") left out
JsonOfQuote(quote) ==
  LET keys == {k \in DOMAIN quote : ~(k = "selfConsumptionModel" /\ quote[k] = "")}
  IN  [k \in keys |->
        CASE k = "breakdown" -> [c \in DOMAIN quote[k] |-> JNum(quote[k][c])]
          [] k = "simplePaybackYears" ->
               IF quote[k] = Null THEN JNull ELSE JNum(quote[k][1])
          [] k = "selfConsumptionModel" -> JStr(quote[k])
          [] OTHER -> JNum(quote[k])]

\* JSON.parse of that text
QuoteOfJson(json) ==
  [k \in DOMAIN json \cup {"selfConsumptionModel"} |->
     IF k \notin DOMAIN json THEN ""
     ELSE CASE k = "breakdown" -> [c \in DOMAIN json[k] |-> json[k][c].n]
            [] k = "simplePaybackYears" ->
                 IF json[k].j = "null" THEN Null ELSE Some(json[k].n)
            [] k = "selfConsumptionModel" -> json[k].s
            [] OTHER -> json[k].n]

\* a string-or-other value [t, s] in JSON: undefined is left out by the
\* caller, a string is a string, a number a number
JsonOfText(v) == IF v.t = "str" THEN JStr(v.s) ELSE JNum(1)

TextOfJson(json) == IF json.j = "string" THEN Str(json.s) ELSE NotAString

TextFields == {"postcode", "houseNumber"}

JsonOfInput(input) ==
  LET keys == {k \in DOMAIN input : ~(k \in TextFields /\ input[k].t = "undef")}
  IN  [k \in keys |-> IF k \in TextFields THEN JsonOfText(input[k]) ELSE input[k]]

InputOfJson(json) ==
  [k \in DOMAIN json \cup TextFields |->
     IF k \notin DOMAIN json THEN Undefined
     ELSE IF k \in TextFields THEN TextOfJson(json[k]) ELSE json[k]]

JsonOfLead(lead) ==
  [ createdAt |-> lead.createdAt,
    contact   |-> lead.contact,
    inputs    |-> JsonOfInput(lead.inputs),
    quote     |-> JsonOfQuote(lead.quote) ]

LeadOfJson(json) ==
  [ createdAt |-> json.createdAt,
    contact   |-> json.contact,
    inputs    |-> InputOfJson(json.inputs),
    quote     |-> QuoteOfJson(json.quote) ]

\* readLeads() with the fault of not reading the file: every request starts
\* from an empty list
readLeadsStartingEmpty(file, ioError) ==
  [array |-> file.kind # "nonarray", leads |-> <<>>]

\* readLeads(): what the call returns.  ioError: fs.readFileSync throws.
\* array is Array.isArray of the returned value (JSON.parse of {} or null
\* gives a value that is not an array).
readLeads(file, ioError) ==
  IF file.kind = "missing" THEN [array |-> TRUE, leads |-> <<>>]
  ELSE IF ioError THEN [array |-> TRUE, leads |-> <<>>]
  ELSE IF file.kind = "blank" THEN [array |-> TRUE, leads |-> <<>>]
  ELSE IF file.kind = "corrupt" THEN [array |-> TRUE, leads |-> <<>>]
  ELSE IF file.kind = "nonarray" THEN [array |-> FALSE, leads |-> <<>>]
  ELSE [array |-> TRUE,
        leads |-> [i \in DOMAIN file.leads |-> LeadOfJson(file.leads[i])]]

WriteOutcomes == {"ok", "error"}

\* what the file system does to one read and the write after it
FileSystemOutcomes ==
  { [ioError |-> FALSE, write |-> "ok"],
    [ioError |-> TRUE,  write |-> "ok"],
    [ioError |-> FALSE, write |-> "error"] }

\* saveLeads(leads): the file afterwards.  outcome "error": writeFileSync
\* throws, which the function catches, and the file is as it was.
saveLeads(file, leads, outcome) ==
  IF outcome = "ok"
    THEN [kind |-> "array", leads |-> [i \in DOMAIN leads |-> JsonOfLead(leads[i])]]
    ELSE file

(***************************************************************************)
(* PVGIS helpers (part_001 lines 193-321)                                  *)
(***************************************************************************)
\* PVGIS.shadingDerate[String(roof?.shading || "none")] ?? 1.0, in tenths
shadingDerate(shading) ==
  CASE shading = "some"  -> 9
    [] shading = "a_lot" -> 8
    [] OTHER             -> 10

\* lines 298-300 with the fault of leaving out "if (panels <= 0) continue":
\* every face is queried
nextRoofIncludingEmpty(roofs, i) ==
  IF i \in DOMAIN roofs THEN i ELSE 0

\* the loop of getTotalPvgisAnnualKWh: the first face at or after i with
\* panels > 0 (the others are skipped by "continue"), 0 when there is none
nextRoof(roofs, i) ==
  LET rest == {j \in DOMAIN roofs : j >= i /\ roofs[j].panels > 0}
  IN  IF rest = {} THEN 0 ELSE CHOOSE j \in rest : \A k \in rest : j <= k

\* what the coordinate service can do to one call; "error" is every way
\* getLatLonFromUkPostcode throws: the fetch rejects, the status is not ok,
\* the body has no numeric latitude and longitude
LatLonOutcomes == {"ok", "error"}

\* what the irradiance service can do to one call; "error" is every way
\* getPvgisAnnualKWhForRoof throws: the fetch rejects, the status is not ok,
\* the body has no numeric E_y
PvgisOutcomes == {"ok", "error"}

\* the E_y values the irradiance service answers with
PvgisYields == {1200, 2001}

(***************************************************************************)
(* Brevo contact sync (part_001 lines 67-135)                              *)
(***************************************************************************)
\* calls lists the Brevo calls made, results how each one settled so far
NoSync == [pc |-> "none", calls |-> <<>>, results |-> <<>>]

\* syncLeadToBrevo as it would stand at line 981 had the handler awaited it:
\* run to its end
startSyncAwaited(environment, contact) ==
  IF ~environment.BREVO_API_KEY
    THEN [pc |-> "skipped", calls |-> <<>>, results |-> <<>>]
  ELSE IF contact.email = ""
    THEN [pc |-> "skipped", calls |-> <<>>, results |-> <<>>]
  ELSE IF ~environment.BREVO_TEMPLATE_ID
    THEN [pc |-> "done", calls |-> <<"createContact">>, results |-> <<"ok">>]
    ELSE [pc |-> "done", calls |-> <<"createContact", "sendTransacEmail">>,
          results |-> <<"ok", "ok">>]

\* syncLeadToBrevo up to its first await: skipped without an API key or an
\* email, else createContact has been called
startSync(environment, contact) ==
  IF ~environment.BREVO_API_KEY
    THEN [pc |-> "skipped", calls |-> <<>>, results |-> <<>>]
  ELSE IF contact.email = ""
    THEN [pc |-> "skipped", calls |-> <<>>, results |-> <<>>]
  ELSE [pc |-> "awaitCreate", calls |-> <<"createContact">>, results |-> <<>>]

\* lines 102-130 with the fault of leaving out the template check of lines
\* 102-105: the email is sent whether or not a template is configured
afterContactAlwaysSending(environment, sync) ==
  [sync EXCEPT !.pc = "awaitSend", !.calls = Append(@, "sendTransacEmail")]

\* lines 102-130: after the contact step, send the templated email if a
\* template is configured
afterContact(environment, sync) ==
  IF ~environment.BREVO_TEMPLATE_ID
    THEN [sync EXCEPT !.pc = "done"]
    ELSE [sync EXCEPT !.pc = "awaitSend",
                      !.calls = Append(@, "sendTransacEmail")]

CreateOutcomes == {"ok", "duplicate_parameter", "error"}

\* lines 88-100 with the fault of updating the contact after every failure
\* of createContact, whatever its code
afterCreateUpdatingOnAnyError(environment, sync, outcome) ==
  LET settled == [sync EXCEPT !.results = Append(@, outcome)]
  IN  CASE outcome = "ok" -> afterContact(environment, settled)
        [] OTHER ->
             [settled EXCEPT !.pc = "awaitUpdate",
                             !.calls = Append(@, "updateContact")]

\* lines 88-100: createContact settles; on "duplicate_parameter" the contact
\* exists and is updated instead, any other error is logged at line 98
afterCreate(environment, sync, outcome) ==
  LET settled == [sync EXCEPT !.results = Append(@, outcome)]
  IN  CASE outcome = "ok" -> afterContact(environment, settled)
        [] outcome = "duplicate_parameter" ->
             [settled EXCEPT !.pc = "awaitUpdate",
                             !.calls = Append(@, "updateContact")]
        [] OTHER -> afterContact(environment, settled)

\* line 95: updateContact settles; a failure leaves through the outer catch
afterUpdate(environment, sync, ok) ==
  IF ok
    THEN afterContact(environment, [sync EXCEPT !.results = Append(@, "ok")])
    ELSE [sync EXCEPT !.pc = "failed", !.results = Append(@, "error")]

\* line 130: sendTransacEmail settles
afterSend(sync, ok) ==
  [sync EXCEPT !.pc = IF ok THEN "done" ELSE "failed",
               !.results = Append(@, IF ok THEN "ok" ELSE "error")]

(***************************************************************************)
(* State                                                                   *)
(***************************************************************************)
VARIABLES
  req,        \* per request: the handler's position, locals and response
  leadsFile,  \* the content of leads.json
  now,        \* the clock new Date() reads
  brevo,      \* per request: the position of its syncLeadToBrevo call
  env,        \* process.env: which Brevo settings are configured
  qin,        \* the input of the calculateQuote harness
  qout        \* its result, <<>> before the call

vars == <<req, leadsFile, now, brevo, env, qin, qout>>

Requests == 1 .. MaxReq

(***************************************************************************)
(* Request payloads                                                        *)
(***************************************************************************)
Face(panels, shading) == [panels |-> panels, shading |-> shading]

\* a payload with every optional field absent
EmptyBody ==
  [ postcode |-> Undefined, houseNumber |-> Undefined,
    monthlyBill |-> 0, annualKWh |-> 0, roofSize |-> "", roofs |-> <<>>,
    panelOption |-> "", PanelOption |-> "", panelCount |-> 0,
    batteryKWh |-> 0, occupancyProfile |-> "", shading |-> "",
    extras |-> [birdProtection |-> FALSE, evCharger |-> FALSE],
    name |-> "", email |-> "", address |-> "", phone |-> "" ]

LondonLower == <<"s","w","1","a"," ","1","a","a">>

Digits12345 == <<"1","2","3","4","5">>

\* payloads that pass validation
ValidPayloads ==
  LET base == [EmptyBody EXCEPT !.postcode = Str(LondonLower),
                                !.houseNumber = Str(<<"7">>), !.monthlyBill = 100]
  IN  { base,
        [base EXCEPT !.panelCount = 10, !.email = "a@b.c"],
        [base EXCEPT !.roofs = <<Face(8, "none")>>, !.PanelOption = "premium",
                     !.email = "a@b.c"],
        [base EXCEPT !.roofs = <<Face(4, "some"), Face(0, "none"), Face(6, "a_lot")>>,
                     !.panelCount = 12],
        [base EXCEPT !.roofs = <<Face(0, "none")>>] }

\* payloads the handler turns away, each with a roof that would be queried
InvalidPayloads ==
  LET base == [EmptyBody EXCEPT !.roofs = <<Face(8, "none")>>, !.email = "a@b.c",
                                !.postcode = Str(LondonLower),
                                !.houseNumber = Str(<<"7">>)]
  IN  { [base EXCEPT !.postcode = Str(Digits12345)],
        [base EXCEPT !.postcode = Undefined],
        [base EXCEPT !.postcode = Str(Digits12345), !.houseNumber = Undefined],
        [base EXCEPT !.houseNumber = Undefined],
        [base EXCEPT !.houseNumber = Str(<<" ", " ">>)],
        [base EXCEPT !.houseNumber = NotAString] }

Payloads == ValidPayloads \cup InvalidPayloads

(***************************************************************************)
(* POST /api/quote (part_001 lines 907-986)                                *)
(*                                                                         *)
(* The handler runs without interruption between two awaits, so each       *)
(* action below is one such stretch.  req[r].trace lists, in order, what   *)
(* the request has done: "validated", "latlon" and "pvgis" (a call to the  *)
(* coordinate or the irradiance service), "read" and "write" (of           *)
(* leads.json), "sync" (syncLeadToBrevo called), "respond".                *)
(* req[r].inbox holds the settled fetch the handler has not resumed on     *)
(* yet: the service settling it and the handler resuming are two steps,    *)
(* and only the second is the program's.                                   *)
(***************************************************************************)
GenericError == "Something went wrong calculating and saving the quote."

IdleRequest ==
  [ pc |-> "idle", body |-> EmptyBody, input |-> EmptyBody,
    roofIdx |-> 0, total |-> 0, pvgisAnnualKWh |-> Null, pvgisError |-> "",
    inbox |-> <<>>, status |-> 0, response |-> <<>>, trace |-> <<>>,
    saved |-> "", syncAtResponse |-> "", readFailed |-> FALSE ]

respond(rq, status, body) ==
  [rq EXCEPT !.pc = "done", !.status = status, !.response = <<body>>,
             !.trace = Append(@, "respond")]

\* lines 909-927 with the fault of leaving out the house-number check of
\* lines 924-927
validationSkippingHouseNumber(body) ==
  LET input1   == [body EXCEPT !.panelOption = normalizedPanelOption(body),
                               !.PanelOption = ""]
      postcode == validateAndNormalisePostcode(input1.postcode)
      input2   == [input1 EXCEPT !.postcode = Str(postcode.value)]
  IN  IF ~postcode.ok
        THEN [status |-> 400, error |-> postcode.error, input |-> input1]
        ELSE [status |-> 0, error |-> "", input |-> input2]

\* lines 909-927: the input object after the handler's normalisation, and the
\* status the validation ends the request with (0: it goes on)
validation(body) ==
  LET input1   == [body EXCEPT !.panelOption = normalizedPanelOption(body),
                               !.PanelOption = ""]
      postcode == validateAndNormalisePostcode(input1.postcode)
      input2   == [input1 EXCEPT !.postcode = Str(postcode.value)]
      house    == input2.houseNumber
  IN  IF ~postcode.ok
        THEN [status |-> 400, error |-> postcode.error, input |-> input1]
      \* (input.houseNumber || "").trim() on a number: a TypeError, caught by
      \* the handler's outer catch
      ELSE IF house.t = "num"
        THEN [status |-> 500, error |-> GenericError, input |-> input2]
      ELSE IF house.t = "undef" \/ Trim(house.s) = <<>>
        THEN [status |-> 400, error |-> "House number / name is required.",
              input |-> input2]
      ELSE [status |-> 0, error |-> "", input |-> input2]

contactOf(input) ==
  [name |-> input.name, email |-> input.email,
   address |-> input.address, phone |-> input.phone]

\* line 970-975: the lead pushed onto the list
makeLead(clock, input, quote) ==
  [createdAt |-> clock, contact |-> contactOf(input), inputs |-> input,
   quote |-> quote]

\* lines 951-957: { ...baseQuote, ...savings }
withSavings(input, baseQuote) ==
  mergeQuote(baseQuote, estimateSelfConsumptionAndSavings(input, baseQuote))

\* the input object of a validated request with this payload, at line 951
validatedInput(body) ==
  [body EXCEPT !.panelOption = normalizedPanelOption(body),
               !.PanelOption = "",
               !.postcode = Str(validateAndNormalisePostcode(body.postcode).value)]

\* what getTotalPvgisAnnualKWh can have returned for these roofs: null, or
\* Math.round of a sum of one derated yield per face with panels
RECURSIVE PvgisTotals(_)
PvgisTotals(roofs) ==
  IF roofs = <<>> THEN {0}
  ELSE IF Head(roofs).panels <= 0 THEN PvgisTotals(Tail(roofs))
  ELSE { annual * shadingDerate(Head(roofs).shading) + rest :
           annual \in PvgisYields, rest \in PvgisTotals(Tail(roofs)) }

PvgisResults(roofs) ==
  {Null} \cup {Some(RoundDiv(total, 10)) : total \in PvgisTotals(roofs)}

\* lines 951-957 for every validated input and every pvgisAnnualKWh the
\* requests of the model can carry, computed once
quoteOf ==
  [k \in UNION { {<<validatedInput(body), pvgis>> : pvgis \in PvgisResults(body.roofs)} :
                  body \in ValidPayloads } |->
     withSavings(calculateQuoteInput(k[1]),
                 calculateQuote(k[1], [annualGenerationOverrideKWh |-> k[2]]))]

\* lines 967-985 with the fault of calling syncLeadToBrevo before readLeads:
\* the sync is started before the lead is written, and also when the store
\* step then throws
storeAndRespondSyncingFirst(settled, input, quote, read, sync, file, clock, write) ==
  IF ~read.array
    THEN [ req   |-> respond([settled EXCEPT
                                !.trace = SubSeq(@, 1, Len(@) - 1) \o <<"sync", "read">>],
                             500, [error |-> GenericError]),
           file  |-> file,
           now   |-> clock,
           brevo |-> sync ]
    ELSE [ req   |-> respond([settled EXCEPT
                                !.trace = SubSeq(@, 1, Len(@) - 1)
                                            \o <<"sync", "read", "write">>,
                                !.saved = write,
                                !.syncAtResponse = sync.pc],
                             200, quote),
           file  |-> saveLeads(file,
                               Append(read.leads, makeLead(clock, input, quote)),
                               write),
           now   |-> clock + 1,
           brevo |-> sync ]

\* lines 967-985: store the lead, start the contact sync, answer.  read is
\* what readLeads() returned, sync the contact sync at its first await.
storeAndRespond(settled, input, quote, read, sync, file, clock, write) ==
  IF ~read.array
    \* leads.push is not a function: the outer catch answers 500
    THEN [ req   |-> respond(settled, 500, [error |-> GenericError]),
           file  |-> file,
           now   |-> clock,
           brevo |-> NoSync ]
    ELSE [ req   |-> respond([settled EXCEPT
                                !.trace = @ \o <<"write", "sync">>,
                                !.saved = write,
                                !.syncAtResponse = sync.pc],
                             200, quote),
           file  |-> saveLeads(file,
                               Append(read.leads, makeLead(clock, input, quote)),
                               write),
           now   |-> clock + 1,
           brevo |-> sync ]

\* lines 949-985: from calculateQuote to the response, once pvgisAnnualKWh is
\* settled.  fs is what the file system does to the read and to the write.
\* The result is the next value of each variable touched.
complete(rq, pvgis, failure, file, clock, environment, fs) ==
  storeAndRespond(
    [rq EXCEPT !.input = calculateQuoteInput(rq.input), !.pvgisAnnualKWh = pvgis,
               !.pvgisError = failure, !.trace = Append(@, "read"),
               \* readFileSync threw on an existing leads.json (line 36)
               !.readFailed = (fs.ioError /\ file.kind # "missing")],
    calculateQuoteInput(rq.input),
    quoteOf[<<rq.input, pvgis>>],
    readLeads(file, fs.ioError),
    startSync(environment, contactOf(rq.input)),
    file, clock, fs.write)

Apply(r, next) ==
  /\ req' = [req EXCEPT ![r] = next.req]
  /\ leadsFile' = next.file
  /\ now' = next.now
  /\ brevo' = [brevo EXCEPT ![r] = next.brevo]

\* a request with one of these payloads arrives and runs to its first await
\* or to its response
ReceiveOf(r, payloads) ==
  /\ req[r].pc = "idle"
  /\ IF r = 1 THEN TRUE ELSE req[r - 1].pc # "idle"
  /\ \E body \in payloads, fs \in FileSystemOutcomes :
       LET v  == validation(body)
           rq == [req[r] EXCEPT !.body = body, !.input = v.input]
       IN  IF v.status # 0
             THEN /\ req' = [req EXCEPT ![r] = respond(rq, v.status, [error |-> v.error])]
                  /\ UNCHANGED <<leadsFile, now, brevo>>
           ELSE IF Len(v.input.roofs) > 0
             \* getTotalPvgisAnnualKWh -> getLatLonFromUkPostcode: await fetch
             THEN /\ req' = [req EXCEPT ![r] =
                               [rq EXCEPT !.pc = "awaitLatLon",
                                          !.trace = <<"validated", "latlon">>]]
                  /\ UNCHANGED <<leadsFile, now, brevo>>
           ELSE Apply(r, complete([rq EXCEPT !.trace = <<"validated">>], Null, "",
                                  leadsFile, now, env, fs))
  /\ UNCHANGED <<env, qin, qout>>

Receive(r) == ReceiveOf(r, Payloads)

\* lines 298-318 from face i on: query the next face with panels, or finish
\* with Math.round(total)
continuePvgis(r, rq, i, fs) ==
  LET j == nextRoof(rq.input.roofs, i)
  IN  IF j # 0
        THEN /\ req' = [req EXCEPT ![r] =
                          [rq EXCEPT !.pc = "awaitPvgis", !.roofIdx = j,
                                     !.trace = Append(@, "pvgis")]]
             /\ UNCHANGED <<leadsFile, now, brevo>>
        ELSE Apply(r, complete(rq, Some(RoundDiv(rq.total, 10)), "",
                               leadsFile, now, env, fs))

\* the coordinate service settles the fetch of line 245: it answers, or the
\* fetch rejects
LatLonService(r) ==
  /\ req[r].pc = "awaitLatLon"
  /\ req[r].inbox = <<>>
  /\ \E result \in LatLonOutcomes :
       req' = [req EXCEPT ![r].inbox = <<[result |-> result, annual |-> 0]>>]
  /\ UNCHANGED <<leadsFile, now, brevo, env, qin, qout>>

\* the handler resumes after getLatLonFromUkPostcode
LatLonReply(r) ==
  /\ req[r].pc = "awaitLatLon"
  /\ req[r].inbox # <<>>
  /\ \E fs \in FileSystemOutcomes :
       LET result == req[r].inbox[1].result
           rq     == [req[r] EXCEPT !.inbox = <<>>]
       IN  IF result = "ok"
             THEN continuePvgis(r, rq, 1, fs)
             \* the throw is caught at line 944: pvgisAnnualKWh = null
             ELSE Apply(r, complete(rq, Null, result, leadsFile, now, env, fs))
  /\ UNCHANGED <<env, qin, qout>>

\* the irradiance service settles the fetch of line 279 for the face being
\* queried
PvgisService(r) ==
  /\ req[r].pc = "awaitPvgis"
  /\ req[r].inbox = <<>>
  /\ \E result \in PvgisOutcomes :
       \E annual \in IF result = "ok" THEN PvgisYields ELSE {0} :
         req' = [req EXCEPT ![r].inbox = <<[result |-> result, annual |-> annual]>>]
  /\ UNCHANGED <<leadsFile, now, brevo, env, qin, qout>>

\* the handler resumes after getPvgisAnnualKWhForRoof
PvgisReply(r) ==
  /\ req[r].pc = "awaitPvgis"
  /\ req[r].inbox # <<>>
  /\ \E fs \in FileSystemOutcomes :
       LET reply == req[r].inbox[1]
           roof  == req[r].input.roofs[req[r].roofIdx]
       IN  IF reply.result = "ok"
             THEN continuePvgis(r,
                    [req[r] EXCEPT
                       !.inbox = <<>>,
                       !.total = @ + reply.annual * shadingDerate(roof.shading)],
                    req[r].roofIdx + 1, fs)
             ELSE Apply(r, complete([req[r] EXCEPT !.inbox = <<>>], Null,
                                    reply.result, leadsFile, now, env, fs))
  /\ UNCHANGED <<env, qin, qout>>

BrevoCreateReply(r) ==
  /\ brevo[r].pc = "awaitCreate"
  /\ \E outcome \in CreateOutcomes :
       brevo' = [brevo EXCEPT ![r] = afterCreate(env, brevo[r], outcome)]
  /\ UNCHANGED <<req, leadsFile, now, env, qin, qout>>

BrevoUpdateReply(r) ==
  /\ brevo[r].pc = "awaitUpdate"
  /\ \E ok \in BOOLEAN :
       brevo' = [brevo EXCEPT ![r] = afterUpdate(env, brevo[r], ok)]
  /\ UNCHANGED <<req, leadsFile, now, env, qin, qout>>

BrevoSendReply(r) ==
  /\ brevo[r].pc = "awaitSend"
  /\ \E ok \in BOOLEAN :
       brevo' = [brevo EXCEPT ![r] = afterSend(brevo[r], ok)]
  /\ UNCHANGED <<req, leadsFile, now, env, qin, qout>>

\* leads.json as the server may find it when it starts
\* a lead an earlier run of the server stored
EarlierLead ==
  JsonOfLead(makeLead(0, validatedInput(CHOOSE body \in ValidPayloads : body.roofs = <<>> /\ body.email = ""),
                      quoteOf[<<validatedInput(CHOOSE body \in ValidPayloads :
                                                 body.roofs = <<>> /\ body.email = ""),
                                Null>>]))

InitialFiles ==
  { [kind |-> k, leads |-> <<>>] :
      k \in {"missing", "blank", "corrupt", "nonarray", "array"} }
    \cup { [kind |-> "array", leads |-> <<EarlierLead>>] }

\* process.env as the server may be started
Environments ==
  { [BREVO_API_KEY |-> FALSE, BREVO_TEMPLATE_ID |-> FALSE],
    [BREVO_API_KEY |-> TRUE,  BREVO_TEMPLATE_ID |-> FALSE],
    [BREVO_API_KEY |-> TRUE,  BREVO_TEMPLATE_ID |-> TRUE] }

NoQuoteInput == EmptyBody

Init ==
  /\ req = [r \in Requests |-> IdleRequest]
  /\ leadsFile \in InitialFiles
  /\ now = 1
  /\ brevo = [r \in Requests |-> NoSync]
  /\ env \in Environments
  /\ qin = NoQuoteInput
  /\ qout = <<>>

Next ==
  \E r \in Requests :
    \/ Receive(r)
    \/ LatLonService(r)
    \/ LatLonReply(r)
    \/ PvgisService(r)
    \/ PvgisReply(r)
    \/ BrevoCreateReply(r)
    \/ BrevoUpdateReply(r)
    \/ BrevoSendReply(r)

Spec == Init /\ [][Next]_vars

\* Node runs a continuation once the promise it awaits has settled; nothing
\* makes a service settle a fetch (the code sets no timeout on fetchFn).
Fairness ==
  \A r \in Requests : WF_vars(LatLonReply(r)) /\ WF_vars(PvgisReply(r))

\* a server with Brevo configured that starts without a leads.json
FairInit ==
  /\ Init
  /\ leadsFile.kind = "missing"
  /\ env.BREVO_API_KEY /\ env.BREVO_TEMPLATE_ID

\* requests with roofs to query, with and without a contact to sync, and a
\* request that is turned away
FairPayloads ==
  {body \in Payloads : Len(body.roofs) > 0 /\ body.houseNumber.t = "str"}

FairReceive(r) == ReceiveOf(r, FairPayloads)

FairNext ==
  \E r \in Requests :
    \/ FairReceive(r)
    \/ LatLonService(r)
    \/ LatLonReply(r)
    \/ PvgisService(r)
    \/ PvgisReply(r)
    \/ BrevoCreateReply(r)
    \/ BrevoUpdateReply(r)
    \/ BrevoSendReply(r)

FairSpec == FairInit /\ [][FairNext]_vars /\ Fairness

(***************************************************************************)
(* calculateQuote and estimateSelfConsumptionAndSavings on their own: the  *)
(* input is drawn from QuoteInputs and the functions are applied to it.    *)
(***************************************************************************)
MaxPanelCount == 16

QuoteInputs ==
  { [EmptyBody EXCEPT !.postcode = Str(<<"S","W","1","A"," ","1","A","A">>),
                      !.houseNumber = Str(<<"7">>),
                      !.panelCount = count, !.roofs = roofs,
                      !.annualKWh = annualKWh, !.monthlyBill = monthlyBill,
                      !.roofSize = roofSize, !.shading = shading,
                      !.panelOption = panelOption] :
      count \in 0 .. MaxPanelCount,
      roofs \in { <<>>, <<Face(0, "none")>>, <<Face(4, "some"), Face(7, "none")>> },
      annualKWh \in {0, 1500, 9000}, monthlyBill \in {0, 100},
      roofSize \in {"", "small", "large"}, shading \in {"", "a_lot"},
      panelOption \in {"", "premium"} }

\* opts.annualGenerationOverrideKWh
Overrides == {Null, Some(0), Some(3500)}

quoteResult(input, override, baseQuote) ==
  [ override |-> override,
    quote    |-> baseQuote,
    input    |-> calculateQuoteInput(input),
    savings  |-> estimateSelfConsumptionAndSavings(calculateQuoteInput(input),
                                                   baseQuote) ]

Quote ==
  /\ qout = <<>>
  /\ \E override \in Overrides :
       qout' = <<quoteResult(qin, override,
                   calculateQuote(qin, [annualGenerationOverrideKWh |-> override]))>>
  /\ UNCHANGED <<req, leadsFile, now, brevo, env, qin>>

QuoteInit ==
  /\ req = [r \in Requests |-> IdleRequest]
  /\ leadsFile = [kind |-> "missing", leads |-> <<>>]
  /\ now = 1
  /\ brevo = [r \in Requests |-> NoSync]
  /\ env = [BREVO_API_KEY |-> FALSE, BREVO_TEMPLATE_ID |-> FALSE]
  /\ qin \in QuoteInputs
  /\ qout = <<>>

QuoteSpec == QuoteInit /\ [][Quote]_vars

(***************************************************************************)
(* calculateQuote followed by estimateSelfConsumptionAndSavings, lines     *)
(* 951-955, over inputs that vary what the prices and the self-consumption *)
(* estimate depend on: region, consumption, battery, occupancy, extras,    *)
(* panel count and the generation figure PVGIS supplied.                   *)
(***************************************************************************)
SavingsPostcodes ==
  { <<"S","W","1","A"," ","1","A","A">>, <<"A","B","1"," ","1","A","A">>,
    <<"Z","Z","1"," ","1","A","A">> }

SavingsInputs ==
  { [EmptyBody EXCEPT !.postcode = Str(postcode),
                      !.houseNumber = Str(<<"7">>),
                      !.annualKWh = annualKWh, !.batteryKWh = batteryKWh,
                      !.occupancyProfile = occupancyProfile,
                      !.panelCount = count,
                      !.extras = [birdProtection |-> extras, evCharger |-> extras]] :
      postcode \in SavingsPostcodes,
      annualKWh \in {0, 1000, 1500, 5999, 6000, 9000},
      batteryKWh \in {0, 1, 5, 13},
      occupancyProfile \in {"", "home_all_day", "half_day", "out_all_day", "weekends"},
      count \in {0, 20},
      extras \in BOOLEAN }

\* opts.annualGenerationOverrideKWh: null, or the rounded PVGIS total
SavingsOverrides ==
  { Null, Some(0), Some(1), Some(150), Some(2500), Some(5699), Some(5700),
    Some(6000), Some(6001) }

\* line 764: the consumption the estimate is made for
demandOf(input, quote) ==
  IF quote.assumedAnnualConsumptionKWh # 0
    THEN quote.assumedAnnualConsumptionKWh
    ELSE IF input.annualKWh # 0 THEN input.annualKWh
    ELSE quote.estAnnualGenerationKWh

\* lines 951-955, with the battery uplift of lines 863-870 alongside (0 when
\* the guard of line 817 returns before it is computed)
savingsResult(input, override, baseQuote) ==
  LET gen    == baseQuote.estAnnualGenerationKWh
      demand == demandOf(input, baseQuote)
  IN  [ override |-> override,
        quote    |-> baseQuote,
        input    |-> calculateQuoteInput(input),
        demand   |-> demand,
        uplift   |-> IF gen = 0 \/ demand = 0 THEN 0
                     ELSE batteryUpliftMcsTrend(
                            IF input.occupancyProfile # ""
                              THEN input.occupancyProfile ELSE "half_day",
                            gen, demand, input.batteryKWh),
        savings  |-> estimateSelfConsumptionAndSavings(calculateQuoteInput(input),
                                                       baseQuote) ]

Estimate ==
  /\ qout = <<>>
  /\ \E override \in SavingsOverrides :
       qout' = <<savingsResult(qin, override,
                   calculateQuote(qin, [annualGenerationOverrideKWh |-> override]))>>
  /\ UNCHANGED <<req, leadsFile, now, brevo, env, qin>>

SavingsInit ==
  /\ req = [r \in Requests |-> IdleRequest]
  /\ leadsFile = [kind |-> "missing", leads |-> <<>>]
  /\ now = 1
  /\ brevo = [r \in Requests |-> NoSync]
  /\ env = [BREVO_API_KEY |-> FALSE, BREVO_TEMPLATE_ID |-> FALSE]
  /\ qin \in SavingsInputs
  /\ qout = <<>>

SavingsSpec == SavingsInit /\ [][Estimate]_vars

(***************************************************************************)
(* The same two calls for a household whose consumption rounds to nothing. *)
(* The model keeps monthlyBill in whole pounds; a bill below 0.0117, such  *)
(* as 0.01, is the flag tinyBill beside the input.                         *)
(***************************************************************************)
\* calculateQuote for a positive input.monthlyBill below 0.0117 and a manual
\* panelCount: annualKWh = monthlyBill * 12 / 0.28 is below 0.5 (lines
\* 383-386), assumedAnnualConsumptionKWh = Math.round(annualKWh) is 0 (line
\* 475), and with the manual count no other field depends on the bill
tinyBillQuote(input, opts) ==
  [calculateQuote(input, opts) EXCEPT !.assumedAnnualConsumptionKWh = 0]

EstimatorInputs ==
  { [ input |-> [EmptyBody EXCEPT !.postcode = Str(<<"S","W","1","A"," ","1","A","A">>),
                                  !.houseNumber = Str(<<"7">>),
                                  !.monthlyBill = monthlyBill,
                                  !.batteryKWh = batteryKWh,
                                  !.occupancyProfile = occupancyProfile,
                                  !.panelCount = count],
      tinyBill |-> tinyBill ] :
      monthlyBill \in {0, 70, 210}, tinyBill \in {FALSE},
      batteryKWh \in {0, 5},
      occupancyProfile \in {"", "home_all_day", "out_all_day"},
      count \in {6, 10} }
  \cup
  { [ input |-> [EmptyBody EXCEPT !.postcode = Str(<<"S","W","1","A"," ","1","A","A">>),
                                  !.houseNumber = Str(<<"7">>),
                                  !.monthlyBill = 1,
                                  !.batteryKWh = batteryKWh,
                                  !.occupancyProfile = occupancyProfile,
                                  !.panelCount = count],
      tinyBill |-> TRUE ] :
      batteryKWh \in {0, 5},
      occupancyProfile \in {"", "home_all_day", "out_all_day"},
      count \in {6, 10} }

EstimatorOverrides == { Null, Some(0), Some(2500), Some(6001) }

EstimateFor ==
  /\ qout = <<>>
  /\ \E override \in EstimatorOverrides :
       LET opts == [annualGenerationOverrideKWh |-> override]
       IN  qout' = <<savingsResult(qin.input, override,
                       IF qin.tinyBill THEN tinyBillQuote(qin.input, opts)
                       ELSE calculateQuote(qin.input, opts))>>
  /\ UNCHANGED <<req, leadsFile, now, brevo, env, qin>>

EstimatorInit ==
  /\ req = [r \in Requests |-> IdleRequest]
  /\ leadsFile = [kind |-> "missing", leads |-> <<>>]
  /\ now = 1
  /\ brevo = [r \in Requests |-> NoSync]
  /\ env = [BREVO_API_KEY |-> FALSE, BREVO_TEMPLATE_ID |-> FALSE]
  /\ qin \in EstimatorInputs
  /\ qout = <<>>

EstimatorSpec == EstimatorInit /\ [][EstimateFor]_vars

(***************************************************************************)
(* validateAndNormalisePostcode and getRegionInfoForPostcode on their own: *)
(* a raw postcode string is drawn from RawPostcodes, normalised, the       *)
(* result normalised again and classified.                                 *)
(***************************************************************************)
\* every area REGION_TABLE lists
TableAreas ==
  UNION { {REGION_TABLE[i].areas[j] : j \in DOMAIN REGION_TABLE[i].areas} :
          i \in DOMAIN REGION_TABLE }

\* the letters a raw postcode starts with: the listed areas, areas that are
\* not listed, lower and mixed case, too many letters
RawAreas ==
  TableAreas \cup { <<"Z","Z">>, <<"B","T">>, <<"X">>, <<"S">>, <<"s","w">>,
                    <<"w">>, <<"E","c">>, <<"A","B","C">> }

\* the strings typed into the postcode field
RawPostcodes ==
  { Str(lead \o area \o district \o sep \o inward) :
      lead \in { <<>>, <<" ">> },
      area \in RawAreas,
      district \in { <<"1">>, <<"1","A">>, <<"1","2">>, <<>> },
      sep \in { <<>>, <<" ">>, <<" "," ">> },
      inward \in { <<"1","A","A">>, <<"1","a","b">>, <<"A","A","1">> } }

\* lines 918 and 412: the postcode is normalised and, if accepted, the
\* normalised string is what getRegionInfoForPostcode sees; again is the
\* normalisation applied to its own output
postcodeResult(raw) ==
  LET first == validateAndNormalisePostcode(raw)
  IN  [ first  |-> first,
        again  |-> IF first.ok THEN validateAndNormalisePostcode(Str(first.value))
                   ELSE first,
        area   |-> IF first.ok THEN getPostcodeArea(Str(first.value)) ELSE <<>>,
        region |-> IF first.ok THEN getRegionInfoForPostcode(Str(first.value))
                   ELSE DefaultRegion ]

Normalise ==
  /\ qout = <<>>
  /\ qout' = <<postcodeResult(qin)>>
  /\ UNCHANGED <<req, leadsFile, now, brevo, env, qin>>

PostcodeInit ==
  /\ req = [r \in Requests |-> IdleRequest]
  /\ leadsFile = [kind |-> "missing", leads |-> <<>>]
  /\ now = 1
  /\ brevo = [r \in Requests |-> NoSync]
  /\ env = [BREVO_API_KEY |-> FALSE, BREVO_TEMPLATE_ID |-> FALSE]
  /\ qin \in RawPostcodes
  /\ qout = <<>>

PostcodeSpec == PostcodeInit /\ [][Normalise]_vars

(***************************************************************************)
(* Properties                                                              *)
(***************************************************************************)
Done(r) == req[r].pc = "done"

\* the request has done this (see req[r].trace)
Did(r, what) == SeqContains(req[r].trace, what)

\* the body of the response
Answer(r) == req[r].response[1]

\* the step in which request r is answered
Completes(r) == req[r].pc # "done" /\ req'[r].pc = "done"

PostcodeFails(body) == ~validateAndNormalisePostcode(body.postcode).ok

HouseNumberBlank(body) ==
  \/ body.houseNumber.t = "undef"
  \/ body.houseNumber.t = "str" /\ Trim(body.houseNumber.s) = <<>>

IsPrefix(s, t) == Len(s) <= Len(t) /\ \A i \in DOMAIN s : s[i] = t[i]

\* the last lead readLeads() returns from the file
LastLead(file) ==
  readLeads(file, FALSE).leads[Len(readLeads(file, FALSE).leads)]

\* C1: a request whose postcode fails normalisation, or whose houseNumber is
\* missing or blank, is answered 400, and it calls neither the coordinate nor
\* the irradiance service, reads and writes no lead and starts no contact
\* sync: answering is the only thing it does.
C1_RejectedBeforeAnyCall ==
  \A r \in Requests :
    req[r].pc # "idle" /\ (PostcodeFails(req[r].body) \/ HouseNumberBlank(req[r].body))
      => /\ Done(r)
         /\ req[r].status = 400
         /\ req[r].trace = <<"respond">>
         /\ brevo[r] = NoSync

\* C1: a request with a good postcode, a blank house number, a roof to query
\* and a contact to sync, in a server with Brevo configured, answered 400
C1_Witness ==
  \E r \in Requests :
    /\ Done(r)
    /\ ~PostcodeFails(req[r].body)
    /\ HouseNumberBlank(req[r].body)
    /\ Len(req[r].body.roofs) > 0
    /\ req[r].body.email # ""
    /\ env.BREVO_API_KEY
    /\ req[r].status = 400

\* C2: a validated request during which the coordinate service or an
\* irradiance query failed is answered with a success quote whose
\* estAnnualGenerationKWh is the fallback Math.round(systemSizeKwp *
\* irradianceFactor * 1000).
C2_UpstreamFailureStillQuotes ==
  \A r \in Requests :
    Done(r) /\ req[r].pvgisError # ""
      => /\ req[r].status = 200
         /\ Answer(r).estAnnualGenerationKWh
              = fallbackAnnual(Answer(r).panelCount, Answer(r).panelWatt)

\* C3: every request that has arrived is eventually answered, also when a
\* service never settles the fetch the handler awaits.
C3_EveryRequestAnswered ==
  \A r \in Requests : (req[r].pc # "idle") ~> Done(r)

\* C4: a request that got as far as the contact sync is answered 200 with the
\* quote computed from its input, in every state the sync can be in; and when
\* the sync had a contact to create, the answer was sent while createContact
\* was still pending.
C4_ResponseIndependentOfSync ==
  \A r \in Requests :
    Did(r, "sync")
      => /\ Done(r)
         /\ req[r].status = 200
         /\ Answer(r) = withSavings(req[r].input,
                           calculateQuote(req[r].input,
                             [annualGenerationOverrideKWh |-> req[r].pvgisAnnualKWh]))
         /\ req[r].syncAtResponse \in {"skipped", "awaitCreate"}
         /\ (env.BREVO_API_KEY /\ req[r].input.email # ""
               => req[r].syncAtResponse = "awaitCreate")

\* C4: a request answered 200 while createContact was pending, whose sync
\* failed afterwards
C4_Witness ==
  \E r \in Requests :
    /\ Done(r)
    /\ req[r].status = 200
    /\ req[r].syncAtResponse = "awaitCreate"
    /\ brevo[r].pc = "failed"

\* C5: a validated request that got as far as reading the lead store is
\* answered with success status, whatever the store holds and whatever the
\* write does.
C5_StoreNeverBlocksQuote ==
  \A r \in Requests : Done(r) /\ Did(r, "read") => req[r].status = 200

\* C6: every step leaves the leads already in the store where they were:
\* the old list is a prefix of the new one.
C6_AppendOnly == [][IsPrefix(leadsFile.leads, leadsFile'.leads)]_vars

\* C7: in the step that answers a request and writes its lead, the last lead
\* read back from the store has as its quote exactly the quote sent in the
\* response.
C7_QuoteRoundTrip ==
  [][\A r \in Requests :
       Completes(r) /\ req'[r].saved = "ok"
         => /\ readLeads(leadsFile', FALSE).array
            /\ Len(readLeads(leadsFile', FALSE).leads) > 0
            /\ LastLead(leadsFile').quote = req'[r].response[1]]_vars

\* C7: a store of two leads whose last one carries the quote of an answered
\* request, the quote of a degenerate case with a null simplePaybackYears
C7_Witness ==
  \E r \in Requests :
    /\ Done(r)
    /\ req[r].saved = "ok"
    /\ Len(leadsFile.leads) = 2
    /\ LastLead(leadsFile).quote = Answer(r)
    /\ Answer(r).simplePaybackYears = Null

NormalisedFields == {"postcode", "panelOption", "PanelOption"}

C9_RoofSumAlwaysOverrides ==
  qout # <<>> /\ SumPanels(qin.roofs) > 0
    => qout[1].quote.panelCount = SumPanels(qin.roofs)

\* C9 amended: when the panels of input.roofs sum to more than 0, the
\* returned panelCount is that sum if no manual panelCount > 0 was supplied,
\* and the manual panelCount if one was.
C9_RoofSumOverridesAutomaticOnly ==
  qout # <<>> /\ SumPanels(qin.roofs) > 0
    => qout[1].quote.panelCount
         = IF qin.panelCount > 0 THEN qin.panelCount ELSE SumPanels(qin.roofs)

\* C9: a quote for roofs of 11 panels and no manual count, where automatic
\* sizing would have given another count
C9_Witness ==
  /\ qout # <<>>
  /\ qin.panelCount = 0
  /\ SumPanels(qin.roofs) = 11
  /\ qout[1].quote.panelCount = 11
  /\ autoPanelCount(qin, resolveAnnualKWh(qin), qout[1].quote.panelWatt) # 11

\* C10: a manual panelCount > 0, when the roofs give no positive panel sum,
\* is the returned panelCount, whatever annualKWh, monthlyBill, roofSize,
\* shading and panelOption are.
C10_ManualCountVerbatim ==
  qout # <<>> /\ qin.panelCount > 0 /\ SumPanels(qin.roofs) <= 0
    => qout[1].quote.panelCount = qin.panelCount

\* C10: a manual count of 3, below the floor of 6 of the automatic sizing,
\* returned for a small roof and a large consumption
C10_Witness ==
  /\ qout # <<>>
  /\ qin.panelCount = 3
  /\ qin.roofs = <<Face(0, "none")>>
  /\ qin.roofSize = "small"
  /\ qin.annualKWh = 9000
  /\ qout[1].quote.panelCount = 3

\* C17: normalising is idempotent on valid postcodes: whenever
\* validateAndNormalisePostcode accepts a raw string, it also accepts its own
\* output and returns that output unchanged.
C17_NormaliseIdempotent ==
  (qout # <<>> /\ qout[1].first.ok) =>
    /\ qout[1].again.ok
    /\ qout[1].again.value = qout[1].first.value

\* C17: a raw string that was accepted and that normalisation changed (lower
\* case, no space) has been normalised twice.
C17_Witness ==
  /\ qout # <<>>
  /\ qout[1].first.ok
  /\ qin.s = <<"s","w","1","A","1","a","b">>
  /\ qout[1].first.value = <<"S","W","1","A"," ","1","A","B">>

\* the leading letters of a normalised postcode: two if the second character
\* is a letter, else one
LeadingArea(p) ==
  IF p[2] \in Upper THEN <<p[1], p[2]>> ELSE <<p[1]>>

\* the REGION_TABLE entries whose area list contains the area
EntriesListing(area) ==
  {i \in DOMAIN REGION_TABLE : SeqContains(REGION_TABLE[i].areas, area)}

\* C18: every normalised postcode maps to exactly one region: no area is
\* listed under two regions; the region is the key and yield of the entry
\* listing the postcode's leading one or two letters, and the default region
\* with yield 975 when no entry lists them; "SW1A1AA" normalises to
\* "SW1A 1AA", area "SW", region "london".
C18_OneRegionPerPostcode ==
  (qout # <<>> /\ qout[1].first.ok) =>
    LET area    == LeadingArea(qout[1].first.value)
        entries == EntriesListing(area)
    IN  /\ qout[1].area = area
        /\ Cardinality(entries) <= 1
        /\ \A i \in entries :
             qout[1].region = [key |-> REGION_TABLE[i].key,
                               kWhPerKwp |-> REGION_TABLE[i].kWhPerKwp]
        /\ entries = {} => qout[1].region = [key |-> "default", kWhPerKwp |-> 975]
        /\ qin.s = <<"S","W","1","A","1","A","A">> =>
             /\ qout[1].first.value = <<"S","W","1","A"," ","1","A","A">>
             /\ area = <<"S","W">>
             /\ qout[1].region.key = "london"

\* C18: "SW1A1AA" has been normalised and classified as london.
C18_Witness ==
  /\ qout # <<>>
  /\ qin.s = <<"S","W","1","A","1","A","A">>
  /\ qout[1].first.ok
  /\ qout[1].region = [key |-> "london", kWhPerKwp |-> 1050]

\* the model tag of the result
Tag == qout[1].savings.selfConsumptionModel

\* the generation figure and the consumption of the result
Gen == qout[1].quote.estAnnualGenerationKWh

\* C11: the model tag is always present and correct: "mcs" when generation
\* and consumption are both at most 6000 and a matching cell exists,
\* "heuristic" in every other case, the all-zero result included.
C11_TagAlwaysPresent ==
  qout # <<>> =>
    LET cell == lookupMcsSelfConsumptionFraction(
                  Gen, qout[1].demand, qout[1].input.batteryKWh,
                  IF qout[1].input.occupancyProfile # ""
                    THEN qout[1].input.occupancyProfile ELSE "half_day")
    IN  IF Gen <= 6000 /\ qout[1].demand <= 6000 /\ cell # Null
          THEN Tag = "mcs"
          ELSE Tag = "heuristic"

\* the occupancy sub-table the lookup of the result reads
TablesOfResult ==
  MCS_TABLES[IF qout[1].input.occupancyProfile \in McsOccupancies
               THEN qout[1].input.occupancyProfile ELSE "half_day"]

\* the first of the ranges nearest by midpoint to x; ranges is a sequence of
\* [min_kwh, max_kwh] records
NearestByMidpoint(ranges, x) ==
  LET dist(i) == LET d == 2 * x - (ranges[i].min_kwh + ranges[i].max_kwh)
                 IN  IF d >= 0 THEN d ELSE 0 - d
  IN  CHOOSE i \in DOMAIN ranges :
        \A j \in DOMAIN ranges : dist(i) < dist(j) \/ (dist(i) = dist(j) /\ i <= j)

\* the range containing x if there is one, else the nearest by midpoint
ContainingOrNearest(ranges, x) ==
  LET hits == {i \in DOMAIN ranges : x >= ranges[i].min_kwh /\ x <= ranges[i].max_kwh}
  IN  IF hits # {} THEN FirstIndex(hits) ELSE NearestByMidpoint(ranges, x)

\* C12: a consumption in no band's range takes the nearest-midpoint band and
\* a generation in no row's range takes the nearest-midpoint row, so that a
\* value in a gap still resolves through the table: whenever generation and
\* consumption are positive and at most 6000 and the cell so selected holds a
\* number, the result is the table's.
C12_GapResolvesThroughTable ==
  (qout # <<>> /\ Gen > 0 /\ Gen <= 6000
     /\ qout[1].demand > 0 /\ qout[1].demand <= 6000) =>
    LET tables == TablesOfResult
        band   == tables[ContainingOrNearest(
                    [i \in DOMAIN tables |-> tables[i].consumption_range],
                    qout[1].demand)]
        row    == band.rows[ContainingOrNearest(
                    [i \in DOMAIN band.rows |-> band.rows[i].generation_bin], Gen)]
        col    == nearestColumnFrom(1, band.battery_kwh,
                                    10 * qout[1].input.batteryKWh, 1, -1)
    IN  col \in DOMAIN row.self_consumption_fraction =>
          /\ Tag = "mcs"
          /\ qout[1].savings.selfConsumptionFraction
               = Min(row.self_consumption_fraction[col], 950000)

\* C13: for all inputs the returned selfConsumptionFraction lies in
\* [0, 0.95] (fractions are in millionths), whether it came from a table
\* cell, from the heuristic or from the all-zero result.
C13_FractionInRange ==
  qout # <<>> =>
    /\ qout[1].savings.selfConsumptionFraction >= 0
    /\ qout[1].savings.selfConsumptionFraction <= 950000

\* C13: a heuristic estimate whose base fraction plus battery uplift came to
\* more than 0.95 (generation at most half the consumption, at home all day,
\* a 13 kWh battery) has been returned at 0.95.
C13_Witness ==
  /\ qout # <<>>
  /\ Tag = "heuristic"
  /\ qin.occupancyProfile = "home_all_day"
  /\ qin.batteryKWh = 13
  /\ 500000 + qout[1].uplift > 950000
  /\ qout[1].savings.selfConsumptionFraction = 950000

\* C14: for all inputs priceLow <= priceHigh, and both are non-negative
\* integers.
C14_PriceRangeOrdered ==
  qout # <<>> =>
    /\ qout[1].quote.priceLow \in Nat
    /\ qout[1].quote.priceHigh \in Nat
    /\ qout[1].quote.priceLow <= qout[1].quote.priceHigh

\* C14: a quote with a battery, both extras and a manual panel count has been
\* priced, and its range is a proper one.
C14_Witness ==
  /\ qout # <<>>
  /\ qin.batteryKWh = 13
  /\ qin.extras.evCharger
  /\ qin.panelCount = 20
  /\ qout[1].quote.priceLow > 0
  /\ qout[1].quote.priceLow < qout[1].quote.priceHigh

\* generation / consumption ratios below, inside and above the clamp of
\* line 513, as pairs <<numerator, denominator>>
UpliftRatios ==
  { <<1, 4>>, <<1, 2>>, <<3, 4>>, <<1, 1>>, <<5, 4>>, <<3, 2>>, <<2, 1>>, <<3, 1>> }

\* C16: without a battery (batteryKWh 0 or absent) the battery component of
\* the cost breakdown is 0 and the heuristic battery uplift is exactly 0, for
\* every occupancy profile and every generation / consumption ratio.
C16_NoBatteryNoCostNoUplift ==
  (qout # <<>> /\ qin.batteryKWh = 0) =>
    /\ qout[1].quote.breakdown.battery = 0
    /\ qout[1].uplift = 0
    /\ \A occ \in McsOccupancies \cup {"", "weekends"}, ratio \in UpliftRatios :
         batteryUpliftMcsTrend(occ, ratio[1], ratio[2], qin.batteryKWh) = 0

\* C16: a quote without a battery has been estimated by the heuristic, for a
\* household out all day that generates more than it consumes.
C16_Witness ==
  /\ qout # <<>>
  /\ qin.batteryKWh = 0
  /\ qin.occupancyProfile = "out_all_day"
  /\ Tag = "heuristic"
  /\ Gen > qout[1].demand
  /\ qout[1].uplift = 0
  /\ qout[1].quote.breakdown.battery = 0

\* the result with every figure 0 and no payback period
AllZero ==
  /\ qout[1].savings.selfConsumptionFraction = 0
  /\ qout[1].savings.selfConsumptionKWh = 0
  /\ qout[1].savings.annualBillSavings = 0
  /\ qout[1].savings.annualSegIncome = 0
  /\ qout[1].savings.totalAnnualBenefit = 0
  /\ qout[1].savings.simplePaybackYears = Null

\* C15: if the generation or the consumption of the quote is zero or unset,
\* the estimate is the all-zero result with simplePaybackYears null.
C15_ZeroInputsGiveAllZero ==
  (qout # <<>> /\ (Gen = 0 \/ qout[1].quote.assumedAnnualConsumptionKWh = 0)) =>
    AllZero

\* how many times the trace lists this step
Count(trace, what) == Cardinality({i \in DOMAIN trace : trace[i] = what})

\* the roof faces with a positive panel count
PositiveFaces(roofs) == {j \in DOMAIN roofs : roofs[j].panels > 0}

\* the trace of request r calls the coordinate service before every
\* irradiance query
LatLonFirst(r) ==
  \A i, j \in DOMAIN req[r].trace :
    req[r].trace[i] = "latlon" /\ req[r].trace[j] = "pvgis" => i < j

\* C19 as stated: every answered request that passed validation and declares
\* roofs has called the coordinate service exactly once and has issued
\* exactly one irradiance query per roof face with a positive panel count.
C19_OneQueryPerFaceAlways ==
  \A r \in Requests :
    (Done(r) /\ Did(r, "validated") /\ Len(req[r].input.roofs) > 0) =>
      /\ Count(req[r].trace, "latlon") = 1
      /\ LatLonFirst(r)
      /\ Count(req[r].trace, "pvgis")
           = Cardinality(PositiveFaces(req[r].input.roofs))

\* what holds of the external calls of request r in every state
CallsInOrder(r) ==
  LET trace == req[r].trace
      roofs == req[r].input.roofs
      faces == PositiveFaces(roofs)
  IN  \* the coordinate service: once if the request passed validation and
      \* declares roofs, never otherwise; before any irradiance query
      /\ Count(trace, "latlon")
           = IF Did(r, "validated") /\ Len(roofs) > 0 THEN 1 ELSE 0
      /\ LatLonFirst(r)
      \* an irradiance query is in flight for a face with panels, and it is
      \* the query number (faces with panels up to that one): one query per
      \* such face, in input order, none for a face without panels
      /\ req[r].pc = "awaitPvgis" =>
           /\ req[r].roofIdx \in faces
           /\ Count(trace, "pvgis")
                = Cardinality({j \in faces : j <= req[r].roofIdx})
      /\ Count(trace, "pvgis") <= Cardinality(faces)
      \* no query without the coordinates
      /\ Count(trace, "pvgis") > 0 => Count(trace, "latlon") = 1
      \* with no failure every face with panels has been queried
      /\ Done(r) /\ req[r].pvgisAnnualKWh # Null =>
           Count(trace, "pvgis") = Cardinality(faces)

\* a step that issues an irradiance query issues one, and is the handler
\* resuming on the successful completion of the call before it
QueryAfterCompletion(r) ==
  Count(req'[r].trace, "pvgis") # Count(req[r].trace, "pvgis") =>
    /\ Count(req'[r].trace, "pvgis") = Count(req[r].trace, "pvgis") + 1
    /\ req[r].pc \in {"awaitLatLon", "awaitPvgis"}
    /\ req[r].inbox # <<>>
    /\ req[r].inbox[1].result = "ok"
    /\ req'[r].inbox = <<>>

\* C19, amended: a request that passed validation and declares roofs calls
\* the coordinate service exactly once, before any irradiance query (a
\* request without roofs calls neither service); then it issues at most one
\* irradiance query per roof face with a positive panel count, none for a
\* face without panels, in input order, each started only once the call
\* before it has completed successfully; every such face is queried when no
\* call fails, and the first failure ends the queries.
C19_QueriesInOrderUntilFailure ==
  /\ [](\A r \in Requests : CallsInOrder(r))
  /\ [][\A r \in Requests : QueryAfterCompletion(r)]_vars

\* C19: a request with three roof faces, the second without panels, has
\* queried the first and the third and has been answered with the PVGIS total.
C19_Witness ==
  \E r \in Requests :
    /\ Done(r)
    /\ Len(req[r].input.roofs) = 3
    /\ req[r].input.roofs[2].panels = 0
    /\ req[r].pvgisAnnualKWh # Null
    /\ req[r].trace = <<"validated", "latlon", "pvgis", "pvgis", "read",
                        "write", "sync", "respond">>

\* the Brevo calls of request r and how they settled
Calls(r) == brevo[r].calls

\* C20: in the contact sync an update of the contact is issued exactly when
\* createContact failed reporting that the contact already exists
\* ("duplicate_parameter"), straight after it; and no failure of create or
\* update leaves syncLeadToBrevo: the sync goes on or ends, and the request
\* keeps its 200 response.
C20_UpdateOnlyOnDuplicate ==
  \A r \in Requests :
    LET results == brevo[r].results
    IN  /\ SeqContains(Calls(r), "updateContact")
          <=> (Len(results) >= 1 /\ results[1] = "duplicate_parameter")
        /\ SeqContains(Calls(r), "updateContact") =>
             /\ Len(Calls(r)) >= 2
             /\ Calls(r)[1] = "createContact"
             /\ Calls(r)[2] = "updateContact"
             /\ Count(Calls(r), "updateContact") = 1
        /\ Count(Calls(r), "createContact") <= 1
        /\ (\E i \in DOMAIN results : results[i] # "ok") =>
             /\ brevo[r].pc \in {"awaitUpdate", "awaitSend", "done", "failed"}
             /\ Done(r)
             /\ req[r].status = 200
             /\ req[r].syncAtResponse = "awaitCreate"
        \* a create failure of another kind is logged and the sync goes on to
        \* the email; a failed update ends the sync in its outer catch
        /\ (Len(results) = 1 /\ results[1] = "error") =>
             brevo[r].pc = (IF env.BREVO_TEMPLATE_ID THEN "awaitSend" ELSE "done")
        /\ (Len(results) = 2 /\ results[1] = "duplicate_parameter"
              /\ results[2] = "error") =>
             /\ brevo[r].pc = "failed"
             /\ Calls(r) = <<"createContact", "updateContact">>

\* C20: createContact reported a duplicate, the update was issued and failed,
\* and the request was answered 200 all the same.
C20_Witness ==
  \E r \in Requests :
    /\ Calls(r) = <<"createContact", "updateContact">>
    /\ brevo[r].results = <<"duplicate_parameter", "error">>
    /\ brevo[r].pc = "failed"
    /\ req[r].status = 200

(***************************************************************************)
(* calculateQuote on its own over inputs that vary what the consumption    *)
(* and the automatic sizing depend on: annualKWh, monthlyBill, roofSize,   *)
(* shading, the panel option, and whether roofs or a manual panelCount fix *)
(* the count.                                                              *)
(***************************************************************************)
SizingInputs ==
  { [EmptyBody EXCEPT !.postcode = Str(<<"S","W","1","A"," ","1","A","A">>),
                      !.houseNumber = Str(<<"7">>),
                      !.annualKWh = annualKWh, !.monthlyBill = monthlyBill,
                      !.roofSize = roofSize, !.shading = shading,
                      !.panelOption = panelOption,
                      !.panelCount = count, !.roofs = roofs] :
      annualKWh \in {0, 1500, 2795, 3400, 9000},
      monthlyBill \in {0, 50, 100},
      roofSize \in {"", "small", "medium", "large", "huge"},
      shading \in {"", "a_lot"},
      panelOption \in {"", "premium"},
      count \in {0, 4},
      roofs \in { <<>>, <<Face(0, "none")>>, <<Face(5, "none")>> } }

\* calculateQuote(input, {}) with no generation override
Size ==
  /\ qout = <<>>
  /\ qout' = <<[quote |-> calculateQuote(qin, [annualGenerationOverrideKWh |-> Null])]>>
  /\ UNCHANGED <<req, leadsFile, now, brevo, env, qin>>

SizingInit ==
  /\ req = [r \in Requests |-> IdleRequest]
  /\ leadsFile = [kind |-> "missing", leads |-> <<>>]
  /\ now = 1
  /\ brevo = [r \in Requests |-> NoSync]
  /\ env = [BREVO_API_KEY |-> FALSE, BREVO_TEMPLATE_ID |-> FALSE]
  /\ qin \in SizingInputs
  /\ qout = <<>>

SizingSpec == SizingInit /\ [][Size]_vars

\* neither the roofs nor a manual panelCount fix the count of this input
AutoSized(input) ==
  /\ input.panelCount <= 0
  /\ SumPanels(input.roofs) <= 0

\* the watts of one panel of the option asked for
PanelWatt(input) ==
  IF input.panelOption = "premium" THEN 460 ELSE 430

\* the roof-capacity ceiling in watts, medium for an absent or unknown roofSize
RoofSizeCap(roofSize) ==
  CASE roofSize = "small" -> 2500
    [] roofSize = "large" -> 6500
    [] OTHER              -> 4000

\* seven times the annual consumption in kWh (monthlyBill x 12 / 0.28 is
\* monthlyBill x 300 / 7)
Consumption7(input) ==
  IF input.annualKWh # 0 THEN 7 * input.annualKWh
  ELSE IF input.monthlyBill # 0 THEN 300 * input.monthlyBill
  ELSE 7 * 3000

\* max(6, round(k / panelKwp)), k = clamp(consumption / 1000, 2, roofSizeCap),
\* times 0.9 under heavy shading; k is carried in seventieths of a watt
ReferencePanelCount(input) ==
  LET k7  == Min(Max(Consumption7(input), 7 * 2000), 7 * RoofSizeCap(input.roofSize))
      k70 == IF input.shading = "a_lot" THEN 9 * k7 ELSE 10 * k7
  IN  Max(6, RoundDiv(k70, 70 * PanelWatt(input)))

\* C21: when neither roofs nor a manual panelCount fix the count, panelCount is
\* max(6, round(k / panelKwp)) with k = clamp(consumption / 1000, 2,
\* roofSizeCap), times 0.9 when shading is "a_lot", the cap being 2.5, 4.0 or
\* 6.5 kWp (4.0 for an absent or unknown roofSize); and systemSizeKwp (in
\* hundredths) is panelCount x panelKwp
C21_AutoSizedCount ==
  (qout # <<>> /\ AutoSized(qin)) =>
    /\ qout[1].quote.panelCount = ReferencePanelCount(qin)
    /\ qout[1].quote.systemSizeKwp * 10 = qout[1].quote.panelCount * PanelWatt(qin)

\* C21 witness: a large roof under heavy shading with premium panels is sized
\* from the reduced cap, 0.9 x 6.5 kWp / 0.46 -> 13 panels, not to the floor
C21_Witness ==
  /\ qout # <<>>
  /\ AutoSized(qin)
  /\ qin.shading = "a_lot" /\ qin.roofSize = "large" /\ qin.annualKWh = 9000
  /\ qin.panelOption = "premium"
  /\ qout[1].quote.panelCount = 13
  /\ qout[1].quote.systemSizeKwp = 598

\* C22: the consumption is annualKWh when non-zero, else monthlyBill x 12 /
\* 0.28 when there is a bill, else 3000, and assumedAnnualConsumptionKWh is
\* that value rounded
C22_ConsumptionResolved ==
  qout # <<>> =>
    qout[1].quote.assumedAnnualConsumptionKWh = RoundDiv(Consumption7(qin), 7)

\* C22 witness: a monthly bill of 100 without an annualKWh gives 4286
C22_Witness ==
  /\ qout # <<>>
  /\ qin.monthlyBill = 100 /\ qin.annualKWh = 0
  /\ qout[1].quote.assumedAnnualConsumptionKWh = 4286

\* C25: whenever the count is sized automatically, the capacity returned,
\* panelCount x per-panel kWp, does not exceed the roofSizeCap of the
\* declared roofSize
C25_AutoSizeWithinRoofCap ==
  (qout # <<>> /\ AutoSized(qin)) =>
    qout[1].quote.panelCount * PanelWatt(qin) <= RoofSizeCap(qin.roofSize)

(***************************************************************************)
(* calculateQuote on its own over inputs that vary what the costs depend   *)
(* on: region, panel option, panel count, the number of roof faces, the    *)
(* battery and the two add-ons.                                            *)
(***************************************************************************)
CostPostcodes ==
  { <<"S","W","1","A"," ","1","A","A">>, <<"A","B","1"," ","1","A","A">>,
    <<"G","U","1"," ","1","A","A">>, <<"Z","Z","1"," ","1","A","A">> }

CostInputs ==
  { [EmptyBody EXCEPT !.postcode = Str(postcode),
                      !.houseNumber = Str(<<"7">>),
                      !.panelOption = panelOption,
                      !.panelCount = count, !.roofs = roofs,
                      !.batteryKWh = batteryKWh,
                      !.extras = [birdProtection |-> bird, evCharger |-> ev]] :
      postcode \in CostPostcodes,
      panelOption \in {"", "premium"},
      count \in {0, 7, 16},
      roofs \in { <<>>, <<Face(8, "none")>>,
                  <<Face(4, "some"), Face(0, "none"), Face(6, "a_lot")>> },
      batteryKWh \in {0, 5, 13},
      bird \in BOOLEAN, ev \in BOOLEAN }

\* calculateQuote(input, {}) with no generation override
Cost ==
  /\ qout = <<>>
  /\ qout' = <<[quote |-> calculateQuote(qin, [annualGenerationOverrideKWh |-> Null])]>>
  /\ UNCHANGED <<req, leadsFile, now, brevo, env, qin>>

CostInit ==
  /\ req = [r \in Requests |-> IdleRequest]
  /\ leadsFile = [kind |-> "missing", leads |-> <<>>]
  /\ now = 1
  /\ brevo = [r \in Requests |-> NoSync]
  /\ env = [BREVO_API_KEY |-> FALSE, BREVO_TEMPLATE_ID |-> FALSE]
  /\ qin \in CostInputs
  /\ qout = <<>>

CostSpec == CostInit /\ [][Cost]_vars

\* the regional multiplier in 20ths: 1.1 london, 0.95 scotland, 1.0 otherwise
RegionMult20(input) ==
  LET key == getRegionInfoForPostcode(input.postcode).key
  IN  IF key = "london" THEN 22 ELSE IF key = "scotland" THEN 19 ELSE 20

\* the reference costs in 50000ths of a pound, for the capacity of the quote:
\* base = capacity x 800 x panelMultiplier x regionMult (panelMultiplier is
\* 1.12 = 28/25 for premium, else 1), and the five direct items
ReferenceCosts(input, quote) ==
  LET mult20     == RegionMult20(input)
      mult25     == IF input.panelOption = "premium" THEN 28 ELSE 25
      \* capacity x costPerKwp: panelWatt x 800 / 1000 pounds per panel
      base       == quote.panelCount * ((quote.panelWatt * 8) \div 10)
                      * mult25 * mult20 * 100
      roofCount  == IF Len(input.roofs) = 0 THEN 1 ELSE Len(input.roofs)
      perRoofs   == 600 + (roofCount - 1) * 400
      addOns     == (IF input.extras.birdProtection THEN 350 ELSE 0)
                      + (IF input.extras.evCharger THEN 900 ELSE 0)
      items      == [ panels      |-> base \div 2,
                      inverter    |-> (base \div 100) * 23,
                      scaffolding |-> perRoofs * mult20 * 2500,
                      battery     |-> input.batteryKWh * 440 * mult20 * 2500,
                      extras      |-> addOns * mult20 * 2500 ]
  IN  [ items |-> items,
        sum   |-> items.panels + items.inverter + items.scaffolding
                    + items.battery + items.extras ]

\* C23: the cost outputs are the reference formula rounded: panels 50% and
\* inverter 23% of base, scaffolding (600 + (roofCount - 1) x 400) x
\* regionMult, battery batteryKWh x 440 x regionMult, extras the selected
\* add-ons x regionMult, labourAndMargin 30% of their sum, the price range
\* the total (sum + labourAndMargin) less and plus 10%; every breakdown
\* component is non-negative
C23_CostsFollowReference ==
  qout # <<>> =>
    LET quote == qout[1].quote
        ref   == ReferenceCosts(qin, quote)
    IN  /\ quote.breakdown.panels      = RoundDiv(ref.items.panels, 50000)
        /\ quote.breakdown.inverter    = RoundDiv(ref.items.inverter, 50000)
        /\ quote.breakdown.scaffolding = RoundDiv(ref.items.scaffolding, 50000)
        /\ quote.breakdown.battery     = RoundDiv(ref.items.battery, 50000)
        /\ quote.breakdown.extras      = RoundDiv(ref.items.extras, 50000)
        /\ quote.breakdown.labourAndMargin = RoundMulDiv(ref.sum, 3, 500000)
        \* total = 1.3 x sum; priceLow = 0.9 x total, priceHigh = 1.1 x total
        /\ quote.priceLow  = RoundMulDiv(ref.sum, 117, 5000000)
        /\ quote.priceHigh = RoundMulDiv(ref.sum, 143, 5000000)
        /\ \A k \in DOMAIN quote.breakdown : quote.breakdown[k] >= 0

\* C23 witness: 16 premium panels in Scotland on three roof faces with a 13
\* kWh battery and both add-ons
C23_Witness ==
  /\ qout # <<>>
  /\ getRegionInfoForPostcode(qin.postcode).key = "scotland"
  /\ qin.panelOption = "premium" /\ qin.panelCount = 16
  /\ Len(qin.roofs) = 3 /\ qin.batteryKWh = 13
  /\ qin.extras.birdProtection /\ qin.extras.evCharger
  /\ qout[1].quote.breakdown.scaffolding = 1330
  /\ qout[1].quote.breakdown.battery = 5434
  /\ qout[1].quote.breakdown.extras = 1188

\* C24: for every result that is not the all-zero one, selfConsumptionKWh =
\* round(fraction x generation); the SEG income is that of an export of
\* max(generation - selfConsumptionKWh, 0) kWh; totalAnnualBenefit =
\* annualBillSavings + annualSegIncome; simplePaybackYears is null exactly when
\* totalAnnualBenefit <= 0 and otherwise the midpoint of priceLow and
\* priceHigh divided by totalAnnualBenefit, to one decimal place (in tenths)
C24_SavingsArithmetic ==
  (qout # <<>> /\ Tag # "") =>
    LET s         == qout[1].savings
        quote     == qout[1].quote
        exportKWh == Max(Gen - s.selfConsumptionKWh, 0)
    IN  /\ s.selfConsumptionKWh = RoundMulDiv(Gen, s.selfConsumptionFraction, 1000000)
        /\ s.annualSegIncome = RoundDiv(exportKWh * 12, 100)
        /\ s.totalAnnualBenefit = s.annualBillSavings + s.annualSegIncome
        /\ (s.simplePaybackYears = Null) <=> (s.totalAnnualBenefit <= 0)
        /\ s.totalAnnualBenefit > 0 =>
             \* |10 x midpoint / benefit - tenths| <= 1/2
             LET tenths == s.simplePaybackYears[1]
                 n      == 10 * (quote.priceLow + quote.priceHigh)
                 d      == 2 * s.totalAnnualBenefit
             IN  /\ 2 * (n - tenths * d) <= d
                 /\ 2 * (tenths * d - n) <= d

\* C24 witness: an estimate with a positive benefit and a payback, whose
\* self-consumed and exported kWh are both positive
C24_Witness ==
  /\ qout # <<>>
  /\ Tag = "heuristic"
  /\ qout[1].savings.selfConsumptionKWh > 0
  /\ qout[1].savings.selfConsumptionKWh < Gen
  /\ qout[1].savings.annualSegIncome > 0
  /\ qout[1].savings.totalAnnualBenefit > 0
  /\ qout[1].savings.simplePaybackYears # Null

\* the request was answered with a quote whose generation figure is the
\* irradiance total of its roof faces (pvgisAnnualKWh is a number, line 454)
OverrideUsed(r) ==
  /\ Done(r) /\ req[r].status = 200
  /\ IsNumber(req[r].pvgisAnnualKWh)

\* C26: whenever the irradiance total is used as estAnnualGenerationKWh, the
\* panels of the roof faces queried add up to the panelCount returned, and the
\* generation figure is positive whenever that panelCount is positive
C26_OverrideMatchesInstallation ==
  \A r \in Requests :
    OverrideUsed(r) =>
      /\ Answer(r).estAnnualGenerationKWh = req[r].pvgisAnnualKWh[1]
      /\ SumPanels(req[r].input.roofs) = Answer(r).panelCount
      /\ Answer(r).panelCount > 0 => Answer(r).estAnnualGenerationKWh > 0

\* C27: the templated email is sent only after the contact was created or
\* updated successfully in the same sync run: the call before
\* sendTransacEmail settled "ok"; after a createContact failure other than
\* "duplicate_parameter", or a failed update, no email is sent
C27_EmailOnlyAfterContactSaved ==
  \A r \in Requests :
    \A i \in DOMAIN Calls(r) :
      Calls(r)[i] = "sendTransacEmail" =>
        /\ i > 1
        /\ i - 1 \in DOMAIN brevo[r].results
        /\ brevo[r].results[i - 1] = "ok"

\* C30: the sync makes no call to the email provider when no API key is
\* configured or the contact has no email, and sends no email when no
\* template id is configured; in that last case the contact is still created,
\* or updated after a duplicate
C30_SyncGuards ==
  \A r \in Requests :
    /\ (~env.BREVO_API_KEY \/ req[r].input.email = "") => Calls(r) = <<>>
    /\ ~env.BREVO_TEMPLATE_ID => ~SeqContains(Calls(r), "sendTransacEmail")
    /\ (Did(r, "sync") /\ env.BREVO_API_KEY /\ req[r].input.email # "") =>
         /\ Len(Calls(r)) >= 1
         /\ Calls(r)[1] = "createContact"
         /\ (Len(brevo[r].results) >= 1
               /\ brevo[r].results[1] = "duplicate_parameter") =>
              (Len(Calls(r)) >= 2 /\ Calls(r)[2] = "updateContact")
    /\ (Did(r, "sync") /\ (~env.BREVO_API_KEY \/ req[r].input.email = "")) =>
         brevo[r].pc = "skipped"

\* C30 witness: with an API key and no template id, a sync whose contact
\* existed has updated it and ended without sending, while the sync of a
\* request without an email made no call
C30_Witness ==
  /\ env.BREVO_API_KEY /\ ~env.BREVO_TEMPLATE_ID
  /\ \E r, o \in Requests :
       /\ Calls(r) = <<"createContact", "updateContact">>
       /\ brevo[r].results = <<"duplicate_parameter", "ok">>
       /\ brevo[r].pc = "done"
       /\ Did(o, "sync") /\ req[o].input.email = ""
       /\ Calls(o) = <<>> /\ brevo[o].pc = "skipped"

\* the position of the first occurrence of what in the trace, 0 when absent
Position(trace, what) ==
  FirstIndex({i \in DOMAIN trace : trace[i] = what})

\* C29: per request at most one lead write and at most one start of the
\* contact sync; a sync is started only after a lead write was attempted, and
\* both come before the response; a request answered 400, or 500 before the
\* lead write, has neither; only a request with neither or both exists
C29_OneLeadOneSync ==
  \A r \in Requests :
    LET trace == req[r].trace
    IN  /\ Count(trace, "write") <= 1
        /\ Count(trace, "sync") <= 1
        /\ Count(trace, "respond") <= 1
        /\ Did(r, "sync") <=> Did(r, "write")
        /\ Did(r, "write") =>
             /\ Position(trace, "validated") = 1
             /\ Position(trace, "read") < Position(trace, "write")
             /\ Position(trace, "write") < Position(trace, "sync")
             /\ Did(r, "respond") => Position(trace, "sync") < Position(trace, "respond")
        /\ ~Did(r, "sync") => brevo[r] = NoSync
        /\ (Done(r) /\ req[r].status \in {400, 500}) =>
             /\ ~Did(r, "write") /\ ~Did(r, "sync")
             /\ brevo[r] = NoSync
        /\ (Done(r) /\ req[r].status = 200) =>
             /\ Did(r, "write") /\ Did(r, "sync")
             /\ trace[Len(trace)] = "respond"

\* C29 witness: one request was answered 200 after its write and its sync
\* start, another was answered 500 at the lead store with neither
C29_Witness ==
  \E r, o \in Requests :
    /\ Done(r) /\ req[r].status = 200
    /\ Did(r, "pvgis")
    /\ SubSeq(req[r].trace, Len(req[r].trace) - 3, Len(req[r].trace))
         = <<"read", "write", "sync", "respond">>
    /\ Done(o) /\ req[o].status = 500
    /\ Did(o, "read") /\ ~Did(o, "write") /\ ~Did(o, "sync")

\* the requests that wrote a lead
Stored == {r \in Requests : Did(r, "write")}

\* index i of leads.json holds the lead request r pushed: its normalised
\* input and the quote it was answered with, stamped at some clock reading
OwnLeadAt(r, i) ==
  \E t \in 1 .. now :
    leadsFile.leads[i] = JsonOfLead(makeLead(t, req[r].input, Answer(r)))

\* leads.json has been readable and writable for every request so far: it
\* holds a list, no read of it threw and every write succeeded
StoreUsable ==
  /\ leadsFile.kind # "nonarray"
  /\ \A r \in Requests :
       /\ ~req[r].readFailed
       /\ Did(r, "write") => req[r].saved = "ok"

\* every validated request that is done has stored, and the stored requests
\* have each their own entry of leads.json
EveryLeadKept ==
  StoreUsable =>
    /\ \A r \in Requests :
         (Done(r) /\ Did(r, "validated")) => (r \in Stored /\ req[r].status = 200)
    /\ \E at \in [Stored -> DOMAIN leadsFile.leads] :
         /\ \A r, o \in Stored : r # o => at[r] # at[o]
         /\ \A r \in Stored : OwnLeadAt(r, at[r])

\* leads.json changes only in a step in which one request reads, appends and
\* writes, and no other request moves in that step
StoreStepAtomic ==
  leadsFile' # leadsFile =>
    \E r \in Requests :
      /\ ~Did(r, "read")
      /\ SeqContains(req'[r].trace, "read") /\ SeqContains(req'[r].trace, "write")
      /\ \A o \in Requests \ {r} : req'[o] = req[o]

\* C28: with a readable and writable store, every validated request of those
\* in flight at once ends with its own lead in leads.json, and the
\* read-append-write of one request is never interleaved with another's
C28_NoLostUpdate ==
  /\ []EveryLeadKept
  /\ [][StoreStepAtomic]_vars

\* C28 witness: two requests were in flight at once, both waiting on the
\* coordinate service; the later one stored first, and leads.json holds both
\* leads in the order they were stored, after the lead an earlier run left
C28_Witness ==
  /\ StoreUsable
  /\ Did(1, "latlon") /\ Did(2, "latlon")
  /\ {1, 2} \subseteq Stored
  /\ Len(leadsFile.leads) >= 3
  /\ leadsFile.leads[1] = EarlierLead
  /\ OwnLeadAt(2, 2) /\ OwnLeadAt(1, 3)
  /\ req[1].input # req[2].input

=============================================================================
